---------------------------- MODULE Spec2Model ----------------------------
(***************************************************************************)
(* Premier League predictor: the prediction engine (form, statistics and   *)
(* head-to-head analyzers, match context, outcome scorer), the in-memory   *)
(* database it reads, the API client's request counter, and the            *)
(* predictions route that stores the results.                              *)
(*                                                                         *)
(* Numbers.  A JavaScript number is modelled as an exact rational <<n, d>> *)
(* in lowest terms with d > 0; <<0, 0>> is NaN.  No division of the engine *)
(* divides a non-zero number by zero, so the infinities are not needed.    *)
(* Math.exp is the one transcendental step; Sigmoid tabulates it.          *)
(***************************************************************************)
EXTENDS Integers, Sequences, FiniteSets, TLC

VARIABLES
    fixtures,        \* mockDB.fixtures
    teamStatistics,  \* mockDB.teamStatistics
    predictions,     \* mockDB.predictions
    apiKey,          \* ApiFootball.apiKey is non-empty
    requestCount,    \* RateLimiter.requestCount
    call,            \* the predictMatch call in progress
    returned,        \* what the last predictMatch call gave its caller
    probe,           \* the direct call of the engine in progress and its result
    clean,           \* the last predictMatch result with every lookup succeeding
    reqs,            \* the requests of the predictions route in progress
    nextId,          \* stands for crypto.randomUUID(): the next fresh id
    lastSaved,       \* per fixture id, the id of the prediction saved last
    limiter,         \* RateLimiter.lastReset, the clock, and the requests in flight
    batch,           \* the predictUpcomingMatches call in progress
    client           \* useAppStore: its state and its API actions in flight

vars == <<fixtures, teamStatistics, predictions, apiKey, requestCount,
          call, returned, probe, clean, reqs, nextId, lastSaved, limiter,
          batch, client>>

----------------------------------------------------------------------------
(* Rational arithmetic with NaN *)

Abs(i) == IF i < 0 THEN -i ELSE i

RECURSIVE GCD(_, _)
GCD(a, b) == IF b = 0 THEN a ELSE GCD(b, a % b)

NaN == <<0, 0>>

IsNaN(x) == x[2] = 0

Rat(n, d) ==
    IF d = 0 THEN NaN
    ELSE LET g == GCD(Abs(n), Abs(d))
             s == IF d < 0 THEN -1 ELSE 1
         IN  <<s * (n \div g), s * (d \div g)>>

Num(k) == <<k, 1>>

Add(x, y) == IF IsNaN(x) \/ IsNaN(y) THEN NaN
             ELSE Rat(x[1] * y[2] + y[1] * x[2], x[2] * y[2])

Sub(x, y) == IF IsNaN(x) \/ IsNaN(y) THEN NaN
             ELSE Rat(x[1] * y[2] - y[1] * x[2], x[2] * y[2])

Mul(x, y) == IF IsNaN(x) \/ IsNaN(y) THEN NaN
             ELSE Rat(x[1] * y[1], x[2] * y[2])

\* x / y; 0 / 0 is NaN
Div(x, y) == IF IsNaN(x) \/ IsNaN(y) THEN NaN
             ELSE Rat(x[1] * y[2], x[2] * y[1])

\* x < y, false when either is NaN
Lt(x, y) == ~IsNaN(x) /\ ~IsNaN(y) /\ x[1] * y[2] < y[1] * x[2]

\* x === y, false when either is NaN
StrictEq(x, y) == ~IsNaN(x) /\ ~IsNaN(y) /\ x = y

Le(x, y) == ~IsNaN(x) /\ ~IsNaN(y) /\ x[1] * y[2] <= y[1] * x[2]

MathMax(x, y) == IF IsNaN(x) \/ IsNaN(y) THEN NaN
                 ELSE IF Lt(x, y) THEN y ELSE x

MathMin(x, y) == IF IsNaN(x) \/ IsNaN(y) THEN NaN
                 ELSE IF Lt(y, x) THEN y ELSE x

MathAbs(x) == IF IsNaN(x) THEN NaN ELSE <<Abs(x[1]), x[2]>>

\* a Math.round that leaves its argument as it is
MathRoundNone(x) == x

\* Math.round: the nearest integer, halves upwards
MathRound(x) == IF IsNaN(x) THEN NaN
                ELSE Num((2 * x[1] + x[2]) \div (2 * x[2]))

\* x || 0 for a number: NaN and 0 are falsy
OrZero(x) == IF IsNaN(x) THEN Num(0) ELSE x

IsInteger(x) == x[2] = 1

InRange(x, lo, hi) == Le(Num(lo), x) /\ Le(x, Num(hi))

\* 10^4 * 1 / (1 + e^(-k/4)) for k = 0 .. 40, rounded
SigmoidTable ==
    <<5000, 5622, 6225, 6792, 7311, 7773, 8176, 8520, 8808, 9047, 9241,
      9399, 9526, 9627, 9707, 9770, 9820, 9859, 9890, 9914, 9933, 9948,
      9959, 9968, 9975, 9981, 9985, 9988, 9991, 9993, 9994, 9996, 9997,
      9997, 9998, 9998, 9999, 9999, 9999, 9999, 10000>>

\* the table, interpolated linearly, at c / 100 for an integer c >= 0
SigmoidPos(c) ==
    LET k == c \div 25
        r == c % 25
    IN  IF k + 1 >= Len(SigmoidTable) THEN SigmoidTable[Len(SigmoidTable)]
        ELSE SigmoidTable[k + 1]
               + ((SigmoidTable[k + 2] - SigmoidTable[k + 1]) * r) \div 25

\* 1 / (1 + Math.exp(-x)), to four decimals; sigmoid(-x) = 1 - sigmoid(x)
Sigmoid(x) ==
    IF IsNaN(x) THEN NaN
    ELSE LET c == (100 * x[1]) \div x[2]
         IN  IF c >= 0 THEN Rat(SigmoidPos(c), 10000)
             ELSE Rat(10000 - SigmoidPos(-c), 10000)

----------------------------------------------------------------------------
(* Sequences *)

RECURSIVE SumSeq(_)
\* the sum of the numbers of s
SumSeq(s) == IF s = <<>> THEN Num(0) ELSE Add(Head(s), SumSeq(Tail(s)))

\* Array.slice(0, n)
Slice(s, n) == IF n <= 0 THEN <<>>
               ELSE IF n >= Len(s) THEN s ELSE SubSeq(s, 1, n)

RECURSIVE InsertByDate(_, _)
\* x placed before the first element that is not more recent than x
InsertByDate(x, s) ==
    IF s = <<>> THEN <<x>>
    ELSE IF Head(s).date > x.date THEN <<Head(s)>> \o InsertByDate(x, Tail(s))
    ELSE <<x>> \o s

RECURSIVE SortByDateDesc(_)
\* Array.sort by date, most recent first; the sort is stable
SortByDateDesc(s) ==
    IF s = <<>> THEN <<>> ELSE InsertByDate(Head(s), SortByDateDesc(Tail(s)))

----------------------------------------------------------------------------
(* The database *)

\* goals.home and goals.away are null until the match is played
Null == -1

\* goals || 0
GoalsOrZero(g) == IF g = Null THEN 0 ELSE g

\* a lookup that takes the first matches it finds, unsorted
getTeamRecentFormUnsorted(teamId, matches) ==
    Slice(SelectSeq(fixtures,
              LAMBDA f : (f.home = teamId \/ f.away = teamId) /\ f.status = "FT"),
          matches)

getTeamRecentForm(teamId, matches) ==
    Slice(SortByDateDesc(SelectSeq(fixtures,
              LAMBDA f : (f.home = teamId \/ f.away = teamId) /\ f.status = "FT")),
          matches)

\* a lookup that takes the first matches it finds, unsorted
getHeadToHeadRecordsUnsorted(team1Id, team2Id, limit) ==
    Slice(SelectSeq(fixtures,
              LAMBDA f : ((f.home = team1Id /\ f.away = team2Id) \/
                          (f.home = team2Id /\ f.away = team1Id)) /\ f.status = "FT"),
          limit)

getHeadToHeadRecords(team1Id, team2Id, limit) ==
    Slice(SortByDateDesc(SelectSeq(fixtures,
              LAMBDA f : ((f.home = team1Id /\ f.away = team2Id) \/
                          (f.home = team2Id /\ f.away = team1Id)) /\ f.status = "FT")),
          limit)

\* the records of (teamId, season), first match first; <<>> stands for null
getTeamStatistics(teamId, season) ==
    Slice(SelectSeq(teamStatistics,
              LAMBDA s : s.team_id = teamId /\ s.season = season), 1)

\* the fixtures dated from now to days days ahead
getUpcomingFixtures(days) ==
    SelectSeq(fixtures, LAMBDA f : f.date >= 0 /\ f.date <= days)

getFixtureById(id) == Slice(SelectSeq(fixtures, LAMBDA f : f.id = id), 1)

getPredictionByFixtureId(fixtureId) ==
    Slice(SelectSeq(predictions, LAMBDA p : p.fixture_id = fixtureId), 1)

\* findIndex(p => p.fixture_id === fixtureId): the first such index, 0 for -1
FindIndex(fixtureId, s) ==
    IF \E i \in DOMAIN s : s[i].fixture_id = fixtureId
    THEN CHOOSE i \in DOMAIN s :
            /\ s[i].fixture_id = fixtureId
            /\ \A j \in 1 .. (i - 1) : s[j].fixture_id # fixtureId
    ELSE 0

\* a savePrediction that adds the prediction whatever the store holds
savePredictionPush(prediction) == Append(predictions, prediction)

\* mockDB.predictions after savePrediction(prediction)
savePrediction(prediction) ==
    LET existingIndex == FindIndex(prediction.fixture_id, predictions)
    IN  IF existingIndex > 0
        THEN [predictions EXCEPT ![existingIndex] = prediction]
        ELSE Append(predictions, prediction)

----------------------------------------------------------------------------
(* The API client *)

DailyLimit == 100

\* the date of the run: year and month (1 .. 12)
Now == [year |-> 2025, month |-> 9]

getCurrentSeason == IF Now.month >= 8 THEN Now.year ELSE Now.year - 1

getAnalysisSeasons ==
    <<[season |-> getCurrentSeason,     weight |-> Rat(5, 10)],
      [season |-> getCurrentSeason - 1, weight |-> Rat(3, 10)],
      [season |-> getCurrentSeason - 2, weight |-> Rat(2, 10)]>>

canMakeRequest(count) == count < DailyLimit

\* One request: what the caller gets and the counter afterwards.  net is
\* what the network does with the request: "ok" (a response without errors),
\* "errors" (a response that lists errors: it is counted, then the request
\* throws) or "fail" (axios throws, nothing is counted).
makeRequest(count, net) ==
    IF ~apiKey THEN [raised |-> TRUE, count |-> count]
    ELSE IF ~canMakeRequest(count) THEN [raised |-> TRUE, count |-> count]
    ELSE IF net = "ok" THEN [raised |-> FALSE, count |-> count + 1]
    ELSE IF net = "errors" THEN [raised |-> TRUE, count |-> count + 1]
    ELSE [raised |-> TRUE, count |-> count]

\* The statistics object of the API: its numbers are nested (fixtures.played.total,
\* goals.for.total.total, ...), so every top-level field the engine reads is
\* undefined, which behaves as NaN under > and ||.
ApiStats ==
    [played |-> NaN, home_wins |-> NaN, home_draws |-> NaN, home_losses |-> NaN,
     goal_difference |-> NaN, clean_sheets |-> NaN, failed_to_score |-> NaN,
     goals_for |-> NaN, goals_against |-> NaN]

\* a TeamStatistics record of the database as the engine reads it
DbStats(rec) ==
    [played |-> Num(rec.played), home_wins |-> Num(rec.home_wins),
     home_draws |-> Num(rec.home_draws), home_losses |-> Num(rec.home_losses),
     goal_difference |-> Num(rec.goal_difference),
     clean_sheets |-> Num(rec.clean_sheets),
     failed_to_score |-> Num(rec.failed_to_score),
     goals_for |-> Num(rec.goals_for), goals_against |-> Num(rec.goals_against)]

RECURSIVE MultiSeasonFrom(_, _, _, _)
\* the loop of getMultiSeasonTeamStatistics from season index i on
MultiSeasonFrom(i, count, net, results) ==
    IF i > Len(getAnalysisSeasons) THEN [results |-> results, count |-> count]
    ELSE LET sw == getAnalysisSeasons[i]
             r  == makeRequest(count, net[i])
         IN  MultiSeasonFrom(i + 1, r.count, net,
                 IF r.raised THEN results
                 ELSE Append(results, [season |-> sw.season, stats |-> ApiStats,
                                       weight |-> sw.weight]))

getMultiSeasonTeamStatistics(teamId, count, net) ==
    MultiSeasonFrom(1, count, net, <<>>)

----------------------------------------------------------------------------
(* The prediction engine: the three analyzers.  An analyzer gives            *)
(* [raised, val]: raised says that it rejected instead of returning val.     *)

HOME_ADVANTAGE_FACTOR == Rat(15, 100)

\* a form weight of 10% in place of 40%
FORM_WEIGHT_TENTH == Rat(1, 10)

FORM_WEIGHT == Rat(4, 10)
STATS_WEIGHT == Rat(35, 100)

NeutralForm ==
    [wins |-> 0, draws |-> 0, losses |-> 0, goalsFor |-> 0, goalsAgainst |-> 0,
     points |-> 0, formScore |-> Num(50)]

\* the body of analyzeTeamForm after the lookup returned recentMatches
FormOfMatches(recentMatches, teamId, matches) ==
    LET teamGoals(m) == IF m.home = teamId THEN GoalsOrZero(m.gh)
                        ELSE GoalsOrZero(m.ga)
        opponentGoals(m) == IF m.home = teamId THEN GoalsOrZero(m.ga)
                            ELSE GoalsOrZero(m.gh)
        idx == DOMAIN recentMatches
        wins == Cardinality({i \in idx :
                    teamGoals(recentMatches[i]) > opponentGoals(recentMatches[i])})
        draws == Cardinality({i \in idx :
                    teamGoals(recentMatches[i]) = opponentGoals(recentMatches[i])})
        losses == Cardinality(idx) - wins - draws
        points == (wins * 3) + draws
        maxPoints == matches * 3
    IN  [wins |-> wins, draws |-> draws, losses |-> losses,
         goalsFor |-> SumSeq([i \in idx |-> Num(teamGoals(recentMatches[i]))])[1],
         goalsAgainst |->
            SumSeq([i \in idx |-> Num(opponentGoals(recentMatches[i]))])[1],
         points |-> points,
         formScore |-> Mul(Div(Num(points), Num(maxPoints)), Num(100))]

\* the try block of analyzeTeamForm; threw: Database.getTeamRecentForm throws
analyzeTeamFormTry(teamId, matches, threw) ==
    IF threw THEN [raised |-> TRUE, val |-> NeutralForm]
    ELSE [raised |-> FALSE,
          val |-> FormOfMatches(getTeamRecentForm(teamId, matches), teamId, matches)]

\* analyzeTeamForm without its catch block
analyzeTeamFormRethrow(r) == r

\* the catch block of analyzeTeamForm
analyzeTeamFormCatch(r) ==
    IF r.raised THEN [raised |-> FALSE, val |-> NeutralForm] ELSE r

analyzeTeamForm(teamId, matches, threw) ==
    analyzeTeamFormCatch(analyzeTeamFormTry(teamId, matches, threw))

NeutralStats ==
    [homeAdvantage |-> Num(50), goalDifferential |-> Num(0),
     cleanSheetRatio |-> Num(0), scoringConsistency |-> Num(50),
     defensiveStrength |-> Num(50), attackingStrength |-> Num(50)]

RECURSIVE DbSeasonsFrom(_, _, _, _)
\* the database fallback loop from season index i on; db[i]: the lookup throws
DbSeasonsFrom(i, teamId, db, data) ==
    IF i > Len(getAnalysisSeasons) THEN data
    ELSE LET sw == getAnalysisSeasons[i]
             stats == getTeamStatistics(teamId, sw.season)
         IN  DbSeasonsFrom(i + 1, teamId, db,
                 IF db[i] \/ stats = <<>> THEN data
                 ELSE Append(data, [season |-> sw.season, stats |-> DbStats(stats[1]),
                                    weight |-> sw.weight]))

\* the six per-season values of the loop body
SeasonMetrics(stats) ==
    LET totalMatches == stats.played
        homeWins == OrZero(stats.home_wins)
        homeDraws == OrZero(stats.home_draws)
        homeLosses == OrZero(stats.home_losses)
        cleanSheets == OrZero(stats.clean_sheets)
        failedToScore == OrZero(stats.failed_to_score)
        goalsFor == OrZero(stats.goals_for)
        goalsAgainst == OrZero(stats.goals_against)
    IN  [homeAdvantage |->
            Mul(Div(Add(Mul(homeWins, Num(3)), homeDraws),
                    Mul(Add(Add(homeWins, homeDraws), homeLosses), Num(3))),
                Num(100)),
         goalDifferential |-> OrZero(stats.goal_difference),
         cleanSheetRatio |-> Mul(Div(cleanSheets, totalMatches), Num(100)),
         scoringConsistency |->
            Mul(Div(Sub(totalMatches, failedToScore), totalMatches), Num(100)),
         defensiveStrength |->
            MathMax(Num(0), Sub(Num(100), Mul(Div(goalsAgainst, totalMatches), Num(25)))),
         attackingStrength |->
            MathMin(Num(100), Mul(Div(goalsFor, totalMatches), Num(40)))]

\* a loop that takes every season record, played or not
ContributesAlways(entry) == TRUE

\* stats && stats.played > 0
Contributes(entry) == Lt(Num(0), entry.stats.played)

Clamp(x) == MathMin(Num(100), MathMax(Num(0), x))

\* weightedStats and totalWeight before the loop
ZeroWeighted ==
    [homeAdvantage |-> Num(0), goalDifferential |-> Num(0),
     cleanSheetRatio |-> Num(0), scoringConsistency |-> Num(0),
     defensiveStrength |-> Num(0), attackingStrength |-> Num(0),
     totalWeight |-> Num(0)]

\* the weighted contribution of one season with the values m
Accumulate(acc, m, weight) ==
    [homeAdvantage |-> Add(acc.homeAdvantage, Mul(m.homeAdvantage, weight)),
     goalDifferential |-> Add(acc.goalDifferential, Mul(m.goalDifferential, weight)),
     cleanSheetRatio |-> Add(acc.cleanSheetRatio, Mul(m.cleanSheetRatio, weight)),
     scoringConsistency |->
        Add(acc.scoringConsistency, Mul(m.scoringConsistency, weight)),
     defensiveStrength |-> Add(acc.defensiveStrength, Mul(m.defensiveStrength, weight)),
     attackingStrength |-> Add(acc.attackingStrength, Mul(m.attackingStrength, weight)),
     totalWeight |-> Add(acc.totalWeight, weight)]

RECURSIVE WeightedFrom(_, _, _)
\* the weighting loop over multiSeasonData from index i on
WeightedFrom(i, multiSeasonData, acc) ==
    IF i > Len(multiSeasonData) THEN acc
    ELSE WeightedFrom(i + 1, multiSeasonData,
             IF Contributes(multiSeasonData[i])
             THEN Accumulate(acc, SeasonMetrics(multiSeasonData[i].stats),
                             multiSeasonData[i].weight)
             ELSE acc)

\* a normalisation by the weight of all the seasons, contributing or not
NormalizedByAll(acc) ==
    IF acc.totalWeight = Num(0) THEN NeutralStats
    ELSE [homeAdvantage |-> Clamp(Div(acc.homeAdvantage, Num(1))),
          goalDifferential |-> Div(acc.goalDifferential, Num(1)),
          cleanSheetRatio |-> Clamp(Div(acc.cleanSheetRatio, Num(1))),
          scoringConsistency |-> Clamp(Div(acc.scoringConsistency, Num(1))),
          defensiveStrength |-> Clamp(Div(acc.defensiveStrength, Num(1))),
          attackingStrength |-> Clamp(Div(acc.attackingStrength, Num(1)))]

\* the neutral statistics without data, else the sums over the weight received
Normalized(acc) ==
    IF acc.totalWeight = Num(0) THEN NeutralStats
    ELSE [homeAdvantage |-> Clamp(Div(acc.homeAdvantage, acc.totalWeight)),
          goalDifferential |-> Div(acc.goalDifferential, acc.totalWeight),
          cleanSheetRatio |-> Clamp(Div(acc.cleanSheetRatio, acc.totalWeight)),
          scoringConsistency |-> Clamp(Div(acc.scoringConsistency, acc.totalWeight)),
          defensiveStrength |-> Clamp(Div(acc.defensiveStrength, acc.totalWeight)),
          attackingStrength |-> Clamp(Div(acc.attackingStrength, acc.totalWeight))]

\* the weighting loop and the normalisation over multiSeasonData
WeightedStats(multiSeasonData) ==
    Normalized(WeightedFrom(1, multiSeasonData, ZeroWeighted))

\* multiSeasonData before the weighting loop: the seasons the API returned,
\* or those of the database when the API returned none
StatisticsData(teamId, env, api) ==
    IF Len(api.results) = 0 THEN DbSeasonsFrom(1, teamId, env.db, <<>>)
    ELSE api.results

\* what the API gave: api is [results, count]
ApiResults(teamId, count, env) ==
    IF apiKey THEN getMultiSeasonTeamStatistics(teamId, count, env.net)
    ELSE [results |-> <<>>, count |-> count]

\* analyzeTeamStatistics after the API was asked: api is [results, count]
StatisticsAfterApi(teamId, env, api) ==
    [raised |-> FALSE,
     val |-> WeightedStats(StatisticsData(teamId, env, api)),
     count |-> api.count]

\* The try block of analyzeTeamStatistics.  env.importFails: the dynamic
\* import of the API client fails; env.net[i]: what the network does with the
\* request for season i; env.db[i]: the database lookup for season i throws.
analyzeTeamStatisticsTry(teamId, count, env) ==
    IF env.importFails
    THEN [raised |-> TRUE, val |-> NeutralStats, count |-> count]
    ELSE StatisticsAfterApi(teamId, env, ApiResults(teamId, count, env))

\* the outer catch block of analyzeTeamStatistics
analyzeTeamStatisticsCatch(r) ==
    IF r.raised THEN [raised |-> FALSE, val |-> NeutralStats, count |-> r.count]
    ELSE r

analyzeTeamStatistics(teamId, count, env) ==
    analyzeTeamStatisticsCatch(analyzeTeamStatisticsTry(teamId, count, env))

\* analyzeHeadToHead without the early return for an empty history
HeadToHeadOfMatchesNoGuard(h2hMatches, team1Id) ==
    LET team1Goals(m) == IF m.home = team1Id THEN GoalsOrZero(m.gh)
                         ELSE GoalsOrZero(m.ga)
        team2Goals(m) == IF m.home = team1Id THEN GoalsOrZero(m.ga)
                         ELSE GoalsOrZero(m.gh)
        points(m) == IF team1Goals(m) > team2Goals(m) THEN Num(3)
                     ELSE IF team1Goals(m) = team2Goals(m) THEN Num(1)
                     ELSE Num(0)
        team1Score == SumSeq([i \in DOMAIN h2hMatches |-> points(h2hMatches[i])])
    IN  Mul(Div(team1Score, Num(Len(h2hMatches) * 3)), Num(100))

\* the body of analyzeHeadToHead after the lookup returned h2hMatches
HeadToHeadOfMatches(h2hMatches, team1Id) ==
    LET team1Goals(m) == IF m.home = team1Id THEN GoalsOrZero(m.gh)
                         ELSE GoalsOrZero(m.ga)
        team2Goals(m) == IF m.home = team1Id THEN GoalsOrZero(m.ga)
                         ELSE GoalsOrZero(m.gh)
        points(m) == IF team1Goals(m) > team2Goals(m) THEN Num(3)
                     ELSE IF team1Goals(m) = team2Goals(m) THEN Num(1)
                     ELSE Num(0)
        team1Score == SumSeq([i \in DOMAIN h2hMatches |-> points(h2hMatches[i])])
        maxScore == Len(h2hMatches) * 3
    IN  IF Len(h2hMatches) = 0 THEN Num(50)
        ELSE Mul(Div(team1Score, Num(maxScore)), Num(100))

\* the try block of analyzeHeadToHead; threw: Database.getHeadToHeadRecords throws
analyzeHeadToHeadTry(team1Id, team2Id, threw) ==
    IF threw THEN [raised |-> TRUE, val |-> Num(50)]
    ELSE [raised |-> FALSE,
          val |-> HeadToHeadOfMatches(getHeadToHeadRecords(team1Id, team2Id, 10),
                                      team1Id)]

\* the catch block of analyzeHeadToHead
analyzeHeadToHeadCatch(r) ==
    IF r.raised THEN [raised |-> FALSE, val |-> Num(50)] ELSE r

analyzeHeadToHead(team1Id, team2Id, threw) ==
    analyzeHeadToHeadCatch(analyzeHeadToHeadTry(team1Id, team2Id, threw))

----------------------------------------------------------------------------
(* The prediction engine: the outcome scorer *)

\* homeWinLogit of calculateMLProbability
HomeWinLogit(context) ==
    LET homeFormDiff == Sub(context.homeForm.formScore, context.awayForm.formScore)
        goalDiff == Sub(context.homeStats.goalDifferential,
                        context.awayStats.goalDifferential)
        attackDefBalance == Sub(context.homeStats.attackingStrength,
                                context.awayStats.defensiveStrength)
        cleanSheetDiff == Sub(context.homeStats.cleanSheetRatio,
                              context.awayStats.cleanSheetRatio)
    IN  Add(Add(Add(Add(Add(Mul(homeFormDiff, Rat(2, 100)),
                            Mul(goalDiff, Rat(1, 100))),
                        Mul(attackDefBalance, Rat(15, 1000))),
                    Mul(cleanSheetDiff, Rat(8, 1000))),
                Mul(context.homeAdvantage, Rat(5, 10))),
            Rat(1, 10))

\* probabilities divided by twice their total
NormalizeProbabilitiesHalved(homeWinProb, drawProb, awayWinProb, total) ==
    [homeWin |-> Div(homeWinProb, Mul(total, Num(2))),
     draw |-> MathMax(Rat(1, 10), Div(drawProb, Mul(total, Num(2)))),
     awayWin |-> Div(awayWinProb, Mul(total, Num(2)))]

\* the three probabilities divided by their total, the draw at least 0.1
NormalizeProbabilities(homeWinProb, drawProb, awayWinProb, total) ==
    [homeWin |-> Div(homeWinProb, total),
     draw |-> MathMax(Rat(1, 10), Div(drawProb, total)),
     awayWin |-> Div(awayWinProb, total)]

\* drawProb and total from the two sigmoids
ProbabilitiesOf(homeWinProb, awayWinProb) ==
    NormalizeProbabilities(homeWinProb,
                           Sub(Sub(Num(1), homeWinProb), awayWinProb),
                           awayWinProb,
                           Add(Add(homeWinProb,
                                   Sub(Sub(Num(1), homeWinProb), awayWinProb)),
                               awayWinProb))

\* awayWinLogit = -homeWinLogit * 0.8, and the two sigmoids
ProbabilitiesOfLogit(homeWinLogit) ==
    ProbabilitiesOf(Sigmoid(homeWinLogit),
                    Sigmoid(Mul(Sub(Num(0), homeWinLogit), Rat(8, 10))))

calculateMLProbability(context) == ProbabilitiesOfLogit(HomeWinLogit(context))

\* a catch block that keeps the home advantage of the regular path
FallbackResultHome ==
    [prediction |-> "DRAW", confidence |-> Num(30),
     factors |-> [homeFormScore |-> Num(50), awayFormScore |-> Num(50),
                  headToHeadScore |-> Num(50), homeAdvantage |-> Num(15),
                  goalDifferenceFactor |-> Num(50)]]

\* the result of the catch block of predictMatch
FallbackResult ==
    [prediction |-> "DRAW", confidence |-> Num(30),
     factors |-> [homeFormScore |-> Num(50), awayFormScore |-> Num(50),
                  headToHeadScore |-> Num(50), homeAdvantage |-> Num(0),
                  goalDifferenceFactor |-> Num(50)]]

\* factor scores that are not kept within 0 .. 100
FactorScoresUnclamped(context, headToHeadScore) ==
    [homeFormScore |->
        Add(Num(50), Sub(context.homeForm.formScore, context.awayForm.formScore)),
     awayFormScore |->
        Sub(Num(50), Sub(context.homeForm.formScore, context.awayForm.formScore)),
     headToHeadScore |-> headToHeadScore,
     homeAdvantage |-> Mul(HOME_ADVANTAGE_FACTOR, Num(100)),
     goalDifferenceFactor |->
        Add(Num(50), Mul(Sub(context.homeStats.goalDifferential,
                             context.awayStats.goalDifferential), Num(2)))]

\* the five factor scores of predictMatch
FactorScores(context, headToHeadScore) ==
    LET formDifference == Sub(context.homeForm.formScore, context.awayForm.formScore)
    IN  [homeFormScore |->
            MathMax(Num(0), MathMin(Num(100), Add(Num(50), formDifference))),
         awayFormScore |->
            MathMax(Num(0), MathMin(Num(100), Sub(Num(50), formDifference))),
         headToHeadScore |-> headToHeadScore,
         homeAdvantage |-> Mul(HOME_ADVANTAGE_FACTOR, Num(100)),
         goalDifferenceFactor |->
            MathMax(Num(0), MathMin(Num(100),
                Add(Num(50), Mul(Sub(context.homeStats.goalDifferential,
                                     context.awayStats.goalDifferential), Num(2)))))]

\* a home score without the home advantage term
HomeScoreNoAdvantage(context, factors) ==
    Add(Add(Mul(factors.homeFormScore, FORM_WEIGHT),
            Mul(Div(Add(context.homeStats.attackingStrength,
                        context.homeStats.defensiveStrength), Num(2)),
                STATS_WEIGHT)),
        Mul(factors.headToHeadScore, Rat(1, 10)))

\* homeScore: the weighted score of the home side
HomeScore(context, factors) ==
    Add(Add(Add(Mul(factors.homeFormScore, FORM_WEIGHT),
                Mul(Div(Add(context.homeStats.attackingStrength,
                            context.homeStats.defensiveStrength), Num(2)),
                    STATS_WEIGHT)),
            Mul(factors.headToHeadScore, Rat(1, 10))),
        Mul(factors.homeAdvantage, Rat(15, 100)))

\* an away score that takes the head-to-head score of the home side as it is
AwayScoreSameSide(context, factors) ==
    Add(Add(Mul(factors.awayFormScore, FORM_WEIGHT),
            Mul(Div(Add(context.awayStats.attackingStrength,
                        context.awayStats.defensiveStrength), Num(2)),
                STATS_WEIGHT)),
        Mul(factors.headToHeadScore, Rat(1, 10)))

\* awayScore: the weighted score of the away side
AwayScore(context, factors) ==
    Add(Add(Mul(factors.awayFormScore, FORM_WEIGHT),
            Mul(Div(Add(context.awayStats.attackingStrength,
                        context.awayStats.defensiveStrength), Num(2)),
                STATS_WEIGHT)),
        Mul(Sub(Num(100), factors.headToHeadScore), Rat(1, 10)))

\* homeScore - awayScore
ScoreDifference(context, factors) ==
    Sub(HomeScore(context, factors), AwayScore(context, factors))

\* a decision whose first two branches take a difference of exactly 10 or -10
DecideInclusive(scoreDifference, mlProbs) ==
    LET maxProb == MathMax(MathMax(mlProbs.homeWin, mlProbs.draw), mlProbs.awayWin)
    IN  IF Le(Num(10), scoreDifference)
        THEN [prediction |-> "HOME_WIN",
              confidence |-> MathMin(Num(95), Add(Num(60), Div(scoreDifference, Num(2))))]
        ELSE IF Le(scoreDifference, Num(-10))
        THEN [prediction |-> "AWAY_WIN",
              confidence |->
                 MathMin(Num(95), Add(Num(60), Div(MathAbs(scoreDifference), Num(2))))]
        ELSE [prediction |-> IF StrictEq(maxProb, mlProbs.homeWin) THEN "HOME_WIN"
                             ELSE IF StrictEq(maxProb, mlProbs.awayWin) THEN "AWAY_WIN"
                             ELSE "DRAW",
              confidence |-> MathMin(Num(75), Add(Num(45), Mul(maxProb, Num(30))))]

\* the outcome and the confidence before rounding
Decide(scoreDifference, mlProbs) ==
    LET maxProb == MathMax(MathMax(mlProbs.homeWin, mlProbs.draw), mlProbs.awayWin)
    IN  IF Lt(Num(10), scoreDifference)
        THEN [prediction |-> "HOME_WIN",
              confidence |-> MathMin(Num(95), Add(Num(60), Div(scoreDifference, Num(2))))]
        ELSE IF Lt(scoreDifference, Num(-10))
        THEN [prediction |-> "AWAY_WIN",
              confidence |->
                 MathMin(Num(95), Add(Num(60), Div(MathAbs(scoreDifference), Num(2))))]
        ELSE [prediction |-> IF StrictEq(maxProb, mlProbs.homeWin) THEN "HOME_WIN"
                             ELSE IF StrictEq(maxProb, mlProbs.awayWin) THEN "AWAY_WIN"
                             ELSE "DRAW",
              confidence |-> MathMin(Num(75), Add(Num(45), Mul(maxProb, Num(30))))]

\* the PredictionResult returned by the try block
ResultOf(decision, factors) ==
    [prediction |-> decision.prediction,
     confidence |-> MathRound(decision.confidence),
     factors |-> factors]

\* the scores, the decision and the result for given factor scores
ScoreWith(context, factors) ==
    ResultOf(Decide(ScoreDifference(context, factors), calculateMLProbability(context)),
             factors)

\* predictMatch from the factor scores to the returned result
ScoreContext(context, headToHeadScore) ==
    ScoreWith(context, FactorScores(context, headToHeadScore))

\* predictMatch without its catch block
PredictCatchRethrow(raised, result) == [raised |-> raised, result |-> result]

\* try { ... } catch of predictMatch: what the caller gets when the body
\* produced result, or raised
PredictCatch(raised, result) ==
    IF raised THEN [raised |-> FALSE, result |-> FallbackResult]
    ELSE [raised |-> FALSE, result |-> result]

\* The context built from the results of the five tasks.  records: the lookup
\* of generateMatchContext throws.  Gives [raised, context, count].
ContextOfResults(homeForm, awayForm, homeStats, awayStats, records) ==
    [raised |-> \/ homeForm.raised \/ awayForm.raised
                \/ homeStats.raised \/ awayStats.raised \/ records,
     context |-> [homeForm |-> homeForm.val, awayForm |-> awayForm.val,
                  homeStats |-> homeStats.val, awayStats |-> awayStats.val,
                  homeAdvantage |-> Mul(HOME_ADVANTAGE_FACTOR, Num(100))],
     count |-> awayStats.count]

\* generateMatchContext once the statistics of the home team are there
ContextAfterHome(fixture, e, homeStats) ==
    ContextOfResults(analyzeTeamForm(fixture.home, 5, e.homeForm),
                     analyzeTeamForm(fixture.away, 5, e.awayForm),
                     homeStats,
                     analyzeTeamStatistics(fixture.away, homeStats.count, e.awayStats),
                     e.records)

\* generateMatchContext as one step, the statistics of the home team taken
\* before those of the away team.  e says which lookups fail: e.homeForm
\* and e.awayForm (the form lookups throw), e.homeStats and e.awayStats (what
\* the environment does to the statistics lookups), e.records (the lookup of
\* generateMatchContext throws).
generateMatchContext(fixture, count, e) ==
    ContextAfterHome(fixture, e,
                     analyzeTeamStatistics(fixture.home, count, e.homeStats))

\* what predictMatch gives: [raised, result, count, thrown]; thrown says that
\* an exception reached the catch block
PredictReturn(out, count, thrown) ==
    [raised |-> out.raised, result |-> out.result, count |-> count,
     thrown |-> thrown]

\* the try block after the context c, with the head-to-head analysis h
PredictTry(c, h) ==
    PredictReturn(PredictCatch(c.raised \/ h.raised,
                               IF c.raised \/ h.raised THEN FallbackResult
                               ELSE ScoreContext(c.context, h.val)),
                  c.count, c.raised \/ h.raised)

\* predictMatch after generateMatchContext; e.headToHead: the lookup of
\* analyzeHeadToHead throws
PredictAfterContext(fixture, e, c) ==
    PredictTry(c, analyzeHeadToHead(fixture.home, fixture.away, e.headToHead))

\* predictMatch as one step; a fixture without teams throws before any lookup
predictMatch(fixture, count, e) ==
    IF ~fixture.valid
    THEN PredictReturn(PredictCatch(TRUE, FallbackResult), count, TRUE)
    ELSE PredictAfterContext(fixture, e, generateMatchContext(fixture, count, e))

----------------------------------------------------------------------------
(* Bounds and the inputs drawn from them *)

MaxFixtures == 2
MaxStats == 1
QuotaLeft == 1

Teams == {1, 2}

\* a stored fixture: who is at home, and the final score or none yet
MatchKinds ==
    {[home |-> t[1], away |-> t[2], gh |-> g[1], ga |-> g[2], status |-> g[3]] :
        t \in {<<1, 2>>, <<2, 1>>},
        g \in {<<1, 0, "FT">>, <<0, 0, "FT">>, <<Null, Null, "NS">>}}

\* mockDB.fixtures with up to n fixtures, ids in the order of arrival
\* (saveFixture keeps the ids distinct).  A date is a number of days from the
\* current date: a completed match lies in the past, the others in the future.
FixtureStores(n) ==
    {[i \in DOMAIN ks |-> [id |-> i, home |-> ks[i].home, away |-> ks[i].away,
                           gh |-> ks[i].gh, ga |-> ks[i].ga,
                           status |-> ks[i].status,
                           date |-> IF ks[i].status = "FT"
                                    THEN i - (Len(ks) + 1) ELSE i]] :
        ks \in UNION {[1 .. k -> MatchKinds] : k \in 0 .. n}}

StatProfiles ==
    {[played |-> 0, home_wins |-> 0, home_draws |-> 0, home_losses |-> 0,
      goal_difference |-> 0, clean_sheets |-> 0, failed_to_score |-> 0,
      goals_for |-> 0, goals_against |-> 0],
     [played |-> 1, home_wins |-> 0, home_draws |-> 0, home_losses |-> 0,
      goal_difference |-> -2, clean_sheets |-> 0, failed_to_score |-> 1,
      goals_for |-> 0, goals_against |-> 2],
     [played |-> 2, home_wins |-> 1, home_draws |-> 1, home_losses |-> 0,
      goal_difference |-> 4, clean_sheets |-> 1, failed_to_score |-> 0,
      goals_for |-> 5, goals_against |-> 1]}

SeasonNumbers == {getAnalysisSeasons[i].season : i \in DOMAIN getAnalysisSeasons}

StatRecord(t, se, p) ==
    [team_id |-> t, season |-> se, played |-> p.played, home_wins |-> p.home_wins,
     home_draws |-> p.home_draws, home_losses |-> p.home_losses,
     goal_difference |-> p.goal_difference, clean_sheets |-> p.clean_sheets,
     failed_to_score |-> p.failed_to_score, goals_for |-> p.goals_for,
     goals_against |-> p.goals_against]

StatRecords == {StatRecord(t, se, p) : t \in Teams, se \in SeasonNumbers, p \in StatProfiles}

StatKey(r) == (10000 * r.team_id) + r.season

\* mockDB.teamStatistics with up to n records, one per (team, season) at most
\* (saveTeamStatistics replaces the record of a key)
StatStores(n) ==
    {s \in UNION {[1 .. k -> StatRecords] : k \in 0 .. n} :
        \A i, j \in DOMAIN s : i < j => StatKey(s[i]) < StatKey(s[j])}

\* the stores a run starts from: fixtures only, or season statistics only
Stores ==
    {[fixtures |-> f, teamStatistics |-> <<>>] : f \in FixtureStores(MaxFixtures)}
    \cup {[fixtures |-> <<>>, teamStatistics |-> s] : s \in StatStores(MaxStats)}

NetOutcomes == {"ok", "errors", "fail"}

\* what the environment does to the lookups of one analyzeTeamStatistics call
StatsEnvs ==
    [importFails : BOOLEAN,
     net : [DOMAIN getAnalysisSeasons -> NetOutcomes],
     db : [DOMAIN getAnalysisSeasons -> BOOLEAN]]

OkEnv ==
    [importFails |-> FALSE, net |-> [i \in DOMAIN getAnalysisSeasons |-> "ok"],
     db |-> [i \in DOMAIN getAnalysisSeasons |-> FALSE]]

RECURSIVE CountBefore(_, _, _)
\* the request counter when the request for season i is about to be made
CountBefore(i, count, net) ==
    IF i = 1 THEN count
    ELSE makeRequest(CountBefore(i - 1, count, net), net[i - 1]).count

\* The outcome of a lookup that is never made is left at its default: no
\* lookup follows a failed import, no request is sent without an API key or
\* with the daily quota used up, and the database is not read when the API
\* gave a result.  count is the request counter before the call.
Consulted(env, count) ==
    /\ env.importFails => (env.net = OkEnv.net /\ env.db = OkEnv.db)
    /\ \A i \in DOMAIN env.net :
          (~apiKey \/ ~canMakeRequest(CountBefore(i, count, env.net)))
             => env.net[i] = OkEnv.net[i]
    /\ (apiKey /\ Len(getMultiSeasonTeamStatistics(0, count, env.net).results) > 0)
          => env.db = OkEnv.db

\* the same outcome for every request that is sent, and the same for the
\* three database lookups
Uniform(env, count) ==
    /\ \A i, j \in DOMAIN env.net :
          (/\ canMakeRequest(CountBefore(i, count, env.net))
           /\ canMakeRequest(CountBefore(j, count, env.net)))
             => env.net[i] = env.net[j]
    /\ \A i, j \in DOMAIN env.db : env.db[i] = env.db[j]

\* the fixture values handed to predictMatch; the last has no teams
PredictInputs ==
    {[id |-> 0, home |-> 1, away |-> 2, valid |-> TRUE],
     [id |-> 0, home |-> 2, away |-> 1, valid |-> TRUE],
     [id |-> 0, home |-> 0, away |-> 0, valid |-> FALSE]}

NoFixture == [id |-> 0, home |-> 0, away |-> 0, valid |-> FALSE]

\* the stores a predictMatch call is followed through step by step
PipelineStores ==
    {s \in Stores : Len(s.fixtures) < MaxFixtures /\ Len(s.teamStatistics) <= 1}

storeVars == <<fixtures, teamStatistics, predictions, apiKey>>
routeVars == <<reqs, nextId, lastSaved>>
probeVars == <<probe, clean>>

----------------------------------------------------------------------------
(* predictMatch as a process: generateMatchContext starts five tasks         *)
(* (Promise.all), the scorer runs when all of them have completed            *)

PendingForm == [st |-> "pending", val |-> NeutralForm]
PendingStats == [st |-> "pending", val |-> NeutralStats]
PendingRecords == [st |-> "pending", val |-> <<>>]

IdleCall ==
    [pc |-> "idle", fixture |-> NoFixture,
     homeForm |-> PendingForm, awayForm |-> PendingForm,
     homeStats |-> PendingStats, awayStats |-> PendingStats,
     headToHead |-> PendingRecords]

NoReturn ==
    [done |-> FALSE, fixture |-> NoFixture, raised |-> FALSE,
     result |-> FallbackResult, thrown |-> FALSE]

Slots == {"homeForm", "awayForm", "homeStats", "awayStats", "headToHead"}

TeamOf(c, side) == IF side = "home" THEN c.fixture.home ELSE c.fixture.away

\* the value a task left in its slot
Settle(r) == [st |-> IF r.raised THEN "rejected" ELSE "done", val |-> r.val]

\* what predictMatch hands its caller: out is [raised, result]; thrown says
\* that an exception reached the catch block of predictMatch
Return(f, out, thrown) ==
    [done |-> TRUE, fixture |-> f, raised |-> out.raised, result |-> out.result,
     thrown |-> thrown]

\* predictMatch(fixture) is called; fixture.teams.home of a fixture without
\* teams throws inside generateMatchContext
PredictStart(f) ==
    /\ call.pc = "idle"
    /\ IF f.valid
       THEN /\ call' = [IdleCall EXCEPT !.pc = "context", !.fixture = f]
            /\ returned' = NoReturn
       ELSE /\ call' = call
            /\ returned' = Return(f, PredictCatch(TRUE, FallbackResult), TRUE)
    /\ UNCHANGED <<client, batch, limiter, storeVars, requestCount, probeVars, routeVars>>

\* analyzeTeamForm(team.id) of generateMatchContext completes
AnalyzeTeamFormStep(side) ==
    LET slot == IF side = "home" THEN "homeForm" ELSE "awayForm"
    IN  /\ call.pc \in {"context", "draining"}
        /\ call[slot].st = "pending"
        /\ \E threw \in BOOLEAN :
              call' = [call EXCEPT
                         ![slot] = Settle(analyzeTeamForm(TeamOf(call, side), 5, threw))]
        /\ UNCHANGED <<client, batch, limiter, storeVars, requestCount, returned, probeVars, routeVars>>

\* analyzeTeamStatistics(team.id) of generateMatchContext completes
AnalyzeTeamStatisticsStep(side) ==
    LET slot == IF side = "home" THEN "homeStats" ELSE "awayStats"
    IN  /\ call.pc \in {"context", "draining"}
        /\ call[slot].st = "pending"
        /\ \E env \in StatsEnvs :
              /\ Consulted(env, requestCount)
              /\ Uniform(env, requestCount)
              /\ LET r == analyzeTeamStatistics(TeamOf(call, side), requestCount, env)
                 IN  /\ call' = [call EXCEPT ![slot] = Settle(r)]
                     /\ requestCount' = r.count
        /\ UNCHANGED <<client, batch, limiter, storeVars, returned, probeVars, routeVars>>

\* Database.getHeadToHeadRecords(home, away, 10) of generateMatchContext
HeadToHeadRecordsStep ==
    /\ call.pc \in {"context", "draining"}
    /\ call.headToHead.st = "pending"
    /\ \E threw \in BOOLEAN :
          call' = [call EXCEPT
                     !.headToHead =
                        IF threw THEN [st |-> "rejected", val |-> <<>>]
                        ELSE [st |-> "done",
                              val |-> getHeadToHeadRecords(call.fixture.home,
                                                           call.fixture.away, 10)]]
    /\ UNCHANGED <<client, batch, limiter, storeVars, requestCount, returned, probeVars, routeVars>>

\* Promise.all rejects as soon as one task has rejected: the catch block of
\* predictMatch returns while the other tasks run on
ContextRejected ==
    /\ call.pc = "context"
    /\ \E s \in Slots : call[s].st = "rejected"
    /\ returned' = Return(call.fixture, PredictCatch(TRUE, FallbackResult), TRUE)
    /\ call' = [call EXCEPT !.pc = "draining"]
    /\ UNCHANGED <<client, batch, limiter, storeVars, requestCount, probeVars, routeVars>>

\* the tasks left behind by a rejected context have all ended
Drained ==
    /\ call.pc = "draining"
    /\ \A s \in Slots : call[s].st # "pending"
    /\ call' = IdleCall
    /\ UNCHANGED <<client, batch, limiter, storeVars, requestCount, returned, probeVars, routeVars>>

ContextOf(c) ==
    [homeForm |-> c.homeForm.val, awayForm |-> c.awayForm.val,
     homeStats |-> c.homeStats.val, awayStats |-> c.awayStats.val,
     headToHeadRecord |-> c.headToHead.val,
     homeAdvantage |-> Mul(HOME_ADVANTAGE_FACTOR, Num(100))]

\* a Promise.race in place of Promise.all: the first task to complete suffices
AnySettled(c) == \E s \in Slots : c[s].st = "done"

\* await Promise.all([...]) resolves: every one of the five tasks has completed
AllSettled(c) == \A s \in Slots : c[s].st = "done"

\* all five tasks have completed: analyzeHeadToHead, the scores, the decision
\* and the return
ScoreStep ==
    /\ call.pc = "context"
    /\ AllSettled(call)
    /\ \E threw \in BOOLEAN :
          LET h == analyzeHeadToHead(call.fixture.home, call.fixture.away, threw)
          IN  returned' = Return(call.fixture,
                                 PredictCatch(h.raised,
                                              ScoreContext(ContextOf(call), h.val)),
                                 h.raised)
    /\ call' = IdleCall
    /\ UNCHANGED <<client, batch, limiter, storeVars, requestCount, probeVars, routeVars>>

NoClean == [has |-> FALSE, fixture |-> NoFixture, result |-> FallbackResult]

\* the concurrent callers of makeRequest and the days that go by
MaxCallers == 2
MaxDays == 1

Callers == 1 .. MaxCallers

\* no request in flight, the limiter created today
NoLimiter ==
    [lastReset |-> 0, now |-> 0, sent |-> 0, pc |-> [c \in Callers |-> "idle"]]

\* no predictUpcomingMatches call yet
\* the API actions of useAppStore
ClientActions ==
    {"fetchTeams", "fetchFixtures", "fetchStandings", "fetchPredictions",
     "generatePrediction"}

\* The initial state of useAppStore.  pc[a]: the await the action a is at;
\* loaded: the collections a fetch has filled; predictions: the fixture ids
\* of the predictions held.
NoClient ==
    [loading |-> FALSE, error |-> "null",
     pc |-> [a \in ClientActions |-> "idle"],
     loaded |-> {}, predictions |-> {}]

NoBatch ==
    [pc |-> "idle", days |-> 0, upcomingFixtures |-> <<>>, i |-> 0, slots |-> <<>>,
     predictions |-> <<>>, pauses |-> 0, out |-> <<>>]

NoProbe ==
    [op |-> "none", a |-> 0, b |-> 0, failed |-> FALSE, env |-> OkEnv,
     count |-> 0, raised |-> FALSE, val |-> <<>>]

\* the frozen store, the API key and the requests already counted today
StoreInit(stores) ==
    /\ \E s \in stores : fixtures = s.fixtures /\ teamStatistics = s.teamStatistics
    /\ predictions = <<>>
    /\ apiKey \in BOOLEAN
    /\ requestCount \in IF apiKey THEN {DailyLimit - QuotaLeft} ELSE {0}

Init ==
    /\ StoreInit(PipelineStores)
    /\ call = IdleCall
    /\ returned = NoReturn
    /\ probe = NoProbe
    /\ clean = NoClean
    /\ reqs = <<>>
    /\ nextId = 1
    /\ lastSaved = <<>>
    /\ limiter = NoLimiter
    /\ batch = NoBatch
    /\ client = NoClient

Next ==
    \/ \E f \in PredictInputs : PredictStart(f)
    \/ \E side \in {"home", "away"} : AnalyzeTeamFormStep(side)
    \/ \E side \in {"home", "away"} : AnalyzeTeamStatisticsStep(side)
    \/ HeadToHeadRecordsStep
    \/ ContextRejected
    \/ Drained
    \/ ScoreStep

Spec == Init /\ [][Next]_vars

----------------------------------------------------------------------------
(* The engine called directly, as the analysis route and the generator       *)
(* script call it: one call per step, against a frozen store                 *)

\* team 3 has no fixture and no statistics
ProbeTeams == Teams \cup {3}

FormWindows == {1, 5}

AllOk ==
    [homeForm |-> FALSE, awayForm |-> FALSE, homeStats |-> OkEnv,
     awayStats |-> OkEnv, records |-> FALSE, headToHead |-> FALSE]

\* the lookups of one predictMatch call: all succeed, or one of them fails
PredictEnvs ==
    {AllOk,
     [AllOk EXCEPT !.homeForm = TRUE],
     [AllOk EXCEPT !.awayForm = TRUE],
     [AllOk EXCEPT !.homeStats = [OkEnv EXCEPT !.importFails = TRUE]],
     [AllOk EXCEPT !.awayStats = [OkEnv EXCEPT !.importFails = TRUE]],
     [AllOk EXCEPT !.records = TRUE],
     [AllOk EXCEPT !.headToHead = TRUE]}

AnalyzeTeamForm(teamId, matches) ==
    /\ probe.op = "none"
    /\ \E threw \in BOOLEAN :
          LET r == analyzeTeamForm(teamId, matches, threw)
          IN  probe' = [op |-> "form", a |-> teamId, b |-> matches, failed |-> threw,
                        env |-> OkEnv, count |-> requestCount,
                        raised |-> r.raised, val |-> r.val]
    /\ UNCHANGED <<client, batch, limiter, storeVars, requestCount, call, returned, clean, routeVars>>

AnalyzeTeamStatistics(teamId) ==
    /\ probe.op = "none"
    /\ \E env \in StatsEnvs :
          /\ Consulted(env, requestCount)
          /\ LET r == analyzeTeamStatistics(teamId, requestCount, env)
             IN  /\ probe' = [op |-> "stats", a |-> teamId, b |-> 0,
                              failed |-> env # OkEnv, env |-> env,
                              count |-> requestCount,
                              raised |-> r.raised, val |-> r.val]
                 /\ requestCount' = r.count
    /\ UNCHANGED <<client, batch, limiter, storeVars, call, returned, clean, routeVars>>

AnalyzeHeadToHead(team1Id, team2Id) ==
    /\ probe.op = "none"
    /\ \E threw \in BOOLEAN :
          LET r == analyzeHeadToHead(team1Id, team2Id, threw)
          IN  probe' = [op |-> "h2h", a |-> team1Id, b |-> team2Id, failed |-> threw,
                        env |-> OkEnv, count |-> requestCount,
                        raised |-> r.raised, val |-> r.val]
    /\ UNCHANGED <<client, batch, limiter, storeVars, requestCount, call, returned, clean, routeVars>>

PredictMatch(fixture) ==
    /\ probe.op = "none"
    /\ \E e \in PredictEnvs :
          LET r == predictMatch(fixture, requestCount, e)
          IN  /\ probe' = [op |-> "predict", a |-> fixture.home, b |-> fixture.away,
                           failed |-> e # AllOk, env |-> OkEnv,
                           count |-> requestCount,
                           raised |-> r.raised, val |-> r.result]
              /\ requestCount' = r.count
    /\ UNCHANGED <<client, batch, limiter, storeVars, call, returned, clean, routeVars>>

\* generateMatchContext(fixture) called directly, as the analysis route calls
\* it for a stored fixture
GenerateMatchContext(fixture) ==
    /\ probe.op = "none"
    /\ fixture.valid
    /\ \E e \in PredictEnvs :
          LET r == generateMatchContext(fixture, requestCount, e)
          IN  /\ probe' = [op |-> "context", a |-> fixture.home, b |-> fixture.away,
                           failed |-> e # AllOk, env |-> OkEnv,
                           count |-> requestCount,
                           raised |-> r.raised, val |-> r.context]
              /\ requestCount' = r.count
    /\ UNCHANGED <<client, batch, limiter, storeVars, call, returned, clean, routeVars>>

\* the caller takes the result of the call
Respond ==
    /\ probe.op # "none"
    /\ probe' = NoProbe
    /\ clean' = IF probe.op = "predict" /\ ~probe.failed /\ ~probe.raised
                THEN [has |-> TRUE,
                      fixture |-> [NoFixture EXCEPT !.home = probe.a, !.away = probe.b,
                                                    !.valid = probe.a # 0],
                      result |-> probe.val]
                ELSE clean
    /\ UNCHANGED <<client, batch, limiter, storeVars, requestCount, call, returned, routeVars>>

InitAnalyzers ==
    /\ StoreInit(Stores)
    /\ call = IdleCall
    /\ returned = NoReturn
    /\ probe = NoProbe
    /\ clean = NoClean
    /\ reqs = <<>>
    /\ nextId = 1
    /\ lastSaved = <<>>
    /\ limiter = NoLimiter
    /\ batch = NoBatch
    /\ client = NoClient

NextAnalyzers ==
    \/ \E t \in ProbeTeams, m \in FormWindows : AnalyzeTeamForm(t, m)
    \/ \E t \in ProbeTeams : AnalyzeTeamStatistics(t)
    \/ \E t1, t2 \in ProbeTeams : AnalyzeHeadToHead(t1, t2)
    \/ \E f \in PredictInputs : PredictMatch(f)
    \/ \E f \in PredictInputs : GenerateMatchContext(f)
    \/ Respond

SpecAnalyzers == InitAnalyzers /\ [][NextAnalyzers]_vars

----------------------------------------------------------------------------
(* The rate limiter under concurrent callers: makeRequest request by         *)
(* request.  A caller runs makeRequest up to its await in one step (the key, *)
(* the limiter, axios.get sending the request) and the rest of it when the   *)
(* response or the network error arrives.                                    *)

\* Date.getDate(): the day of the month of day d, counted from the first of
\* a month of 31 days
getDate(d) == (d % 31) + 1

\* requestCount after the reset of canMakeRequest
CountAfterReset(count, lastReset, now) ==
    IF getDate(now) # getDate(lastReset) THEN 0 ELSE count

\* lastReset after the reset of canMakeRequest
LastResetAfter(lastReset, now) ==
    IF getDate(now) # getDate(lastReset) THEN now ELSE lastReset

\* a new calendar day begins: nothing was sent on it yet
NewDay ==
    /\ limiter.now < MaxDays
    /\ limiter' = [limiter EXCEPT !.now = @ + 1, !.sent = 0]
    /\ UNCHANGED <<client, batch, storeVars, requestCount, call, returned, probeVars, routeVars>>

\* makeRequest up to "await axios.get(...)": the request is sent unless the
\* limiter refuses, and then makeRequest throws
MakeRequestSend(c) ==
    /\ apiKey
    /\ limiter.pc[c] = "idle"
    /\ limiter.sent < DailyLimit + MaxCallers
    /\ requestCount' = CountAfterReset(requestCount, limiter.lastReset, limiter.now)
    /\ limiter' =
          IF canMakeRequest(CountAfterReset(requestCount, limiter.lastReset,
                                            limiter.now))
          THEN [limiter EXCEPT
                  !.lastReset = LastResetAfter(limiter.lastReset, limiter.now),
                  !.sent = @ + 1, !.pc[c] = "waiting"]
          ELSE [limiter EXCEPT
                  !.lastReset = LastResetAfter(limiter.lastReset, limiter.now)]
    /\ UNCHANGED <<client, batch, storeVars, call, returned, probeVars, routeVars>>

\* the counter after the await: a response is counted, with errors or
\* without; when axios throws nothing is counted
CountAfterResponse(count, net) == IF net = "fail" THEN count ELSE count + 1

\* the response, or the network error, of the request of caller c arrives
MakeRequestReceive(c) ==
    /\ limiter.pc[c] = "waiting"
    /\ \E net \in NetOutcomes : requestCount' = CountAfterResponse(requestCount, net)
    /\ limiter' = [limiter EXCEPT !.pc[c] = "idle"]
    /\ UNCHANGED <<client, batch, storeVars, call, returned, probeVars, routeVars>>

InitLimiter ==
    /\ fixtures = <<>>
    /\ teamStatistics = <<>>
    /\ predictions = <<>>
    /\ apiKey = TRUE
    /\ requestCount \in {0, DailyLimit - QuotaLeft}
    /\ call = IdleCall
    /\ returned = NoReturn
    /\ probe = NoProbe
    /\ clean = NoClean
    /\ reqs = <<>>
    /\ nextId = 1
    /\ lastSaved = <<>>
    /\ limiter = [NoLimiter EXCEPT !.sent = requestCount]
    /\ batch = NoBatch
    /\ client = NoClient

NextLimiter ==
    \/ NewDay
    \/ \E c \in Callers : MakeRequestSend(c)
    \/ \E c \in Callers : MakeRequestReceive(c)

SpecLimiter == InitLimiter /\ [][NextLimiter]_vars

----------------------------------------------------------------------------
(* predictUpcomingMatches: the upcoming fixtures are predicted batch by      *)
(* batch.  batch.slots holds the predictMatch calls of the current batch,    *)
(* batch.pauses counts the timers that have elapsed.                         *)

MaxUpcoming == 11
UpcomingDays == {1, 7}
batchSize == 5

\* the lookups of a predictMatch call of the route: all succeed, or the
\* lookup of the context throws
RouteEnvs == {AllOk, [AllOk EXCEPT !.records = TRUE]}

AsInput(fixture) ==
    [id |-> fixture.id, home |-> fixture.home, away |-> fixture.away, valid |-> TRUE]

\* a fixture still to be played, in date days
ScheduledFixture(id, date) ==
    [id |-> id, home |-> 1 + (id % 2), away |-> 2 - (id % 2), gh |-> Null,
     ga |-> Null, status |-> "NS", date |-> date]

\* mockDB.fixtures with n scheduled fixtures, the ids descending; every third
\* one is played in five days, the others tomorrow
ScheduledFixtures(n) ==
    [k \in 1 .. n |-> ScheduledFixture(n + 1 - k, IF k % 3 = 0 THEN 5 ELSE 1)]

\* every fixture from index i on, without a batch size
RestOf(upcomingFixtures, i) ==
    SubSeq(upcomingFixtures, i + 1, Len(upcomingFixtures))

\* upcomingFixtures.slice(i, i + batchSize)
BatchOf(upcomingFixtures, i) ==
    SubSeq(upcomingFixtures, i + 1,
           IF i + batchSize < Len(upcomingFixtures) THEN i + batchSize
           ELSE Len(upcomingFixtures))

\* batch.map(async (fixture) => ...): one predictMatch call per fixture starts
StartedSlots(fs) ==
    [j \in DOMAIN fs |-> [st |-> "pending", fixture |-> fs[j],
                          prediction |-> FallbackResult]]

\* the {fixture, prediction} objects of a batch, in the order of the batch
BatchPredictions(slots) ==
    [j \in DOMAIN slots |->
        [fixture |-> slots[j].fixture, prediction |-> slots[j].prediction]]

\* predictUpcomingMatches(days) up to the first await of Promise.all: the
\* upcoming fixtures are read; without any the empty array is returned
StartUpcomingMatches(days) ==
    /\ batch.pc = "idle"
    /\ batch' =
          IF Len(getUpcomingFixtures(days)) = 0
          THEN [NoBatch EXCEPT !.pc = "done", !.days = days]
          ELSE [NoBatch EXCEPT
                  !.pc = "running", !.days = days,
                  !.upcomingFixtures = getUpcomingFixtures(days),
                  !.slots = StartedSlots(BatchOf(getUpcomingFixtures(days), 0))]
    /\ UNCHANGED <<client, limiter, storeVars, requestCount, call, returned, probeVars,
                   routeVars>>

\* the predictMatch call of slot j returns
BatchPredictionDone(j) ==
    /\ batch.pc = "running"
    /\ j \in DOMAIN batch.slots
    /\ batch.slots[j].st = "pending"
    /\ \E e \in RouteEnvs :
          /\ batch' =
                [batch EXCEPT
                   !.slots[j] =
                      [st |-> "done", fixture |-> batch.slots[j].fixture,
                       prediction |->
                          predictMatch(AsInput(batch.slots[j].fixture), requestCount,
                                       e).result]]
          /\ requestCount' =
                predictMatch(AsInput(batch.slots[j].fixture), requestCount, e).count
    /\ UNCHANGED <<client, limiter, storeVars, call, returned, probeVars, routeVars>>

\* Promise.all resolves: the predictions of the batch are pushed; a timer is
\* set when another batch follows, else the loop ends and the array is
\* returned
BatchGathered ==
    /\ batch.pc = "running"
    /\ \A j \in DOMAIN batch.slots : batch.slots[j].st = "done"
    /\ batch' =
          IF batch.i + batchSize < Len(batch.upcomingFixtures)
          THEN [batch EXCEPT
                  !.pc = "pause",
                  !.predictions = @ \o BatchPredictions(batch.slots)]
          ELSE [batch EXCEPT
                  !.pc = "done", !.i = @ + batchSize, !.slots = <<>>,
                  !.predictions = @ \o BatchPredictions(batch.slots),
                  !.out = batch.predictions \o BatchPredictions(batch.slots)]
    /\ UNCHANGED <<client, limiter, storeVars, requestCount, call, returned, probeVars,
                   routeVars>>

\* the timer of the pause fires: the next batch starts
PauseElapsed ==
    /\ batch.pc = "pause"
    /\ batch' =
          [batch EXCEPT
             !.pc = "running", !.i = @ + batchSize, !.pauses = @ + 1,
             !.slots = StartedSlots(BatchOf(batch.upcomingFixtures,
                                            batch.i + batchSize))]
    /\ UNCHANGED <<client, limiter, storeVars, requestCount, call, returned, probeVars,
                   routeVars>>

InitBatch ==
    /\ \E n \in 0 .. MaxUpcoming : fixtures = ScheduledFixtures(n)
    /\ teamStatistics = <<>>
    /\ predictions = <<>>
    /\ apiKey = FALSE
    /\ requestCount = 0
    /\ call = IdleCall
    /\ returned = NoReturn
    /\ probe = NoProbe
    /\ clean = NoClean
    /\ reqs = <<>>
    /\ nextId = 1
    /\ lastSaved = <<>>
    /\ limiter = NoLimiter
    /\ batch = NoBatch
    /\ client = NoClient

NextBatch ==
    \/ \E days \in UpcomingDays : StartUpcomingMatches(days)
    \/ \E j \in 1 .. MaxUpcoming : BatchPredictionDone(j)
    \/ BatchGathered
    \/ PauseElapsed

SpecBatch == InitBatch /\ [][NextBatch]_vars

----------------------------------------------------------------------------
(* Scenario A: the home team (1) won its last five matches with 15 goals to  *)
(* 2, the away team (2) lost its last five with 2 goals to 15; there are no  *)
(* season statistics.  The five matches are either played against a third    *)
(* team, or they are the five matches the two teams played each other.       *)

\* the scores of a won match: goals of the winner, goals of the loser
WonScores == {<<2, 0>>, <<3, 0>>, <<4, 0>>, <<3, 1>>, <<4, 1>>}

RECURSIVE SumField(_, _)
\* the sum of the k-th components of the tuples of s
SumField(s, k) == IF s = <<>> THEN 0 ELSE Head(s)[k] + SumField(Tail(s), k)

\* five wins with 15 goals for and 2 against
FiveWins ==
    {w \in [1 .. 5 -> WonScores] : SumField(w, 1) = 15 /\ SumField(w, 2) = 2}

\* a completed fixture, i days ago
PlayedFixture(i, home, away, gh, ga) ==
    [id |-> i, home |-> home, away |-> away, gh |-> gh, ga |-> ga,
     status |-> "FT", date |-> -i]

\* mockDB.fixtures of the scenario: with direct, the five matches between
\* teams 1 and 2 (the venue alternating); else five matches of each against
\* team 3
ScenarioAFixtures(w, direct) ==
    IF direct
    THEN [i \in 1 .. 5 |->
            IF i % 2 = 1 THEN PlayedFixture(i, 1, 2, w[i][1], w[i][2])
            ELSE PlayedFixture(i, 2, 1, w[i][2], w[i][1])]
    ELSE [i \in 1 .. 10 |->
            IF i <= 5 THEN PlayedFixture(i, 1, 3, w[i][1], w[i][2])
            ELSE PlayedFixture(i, 3, 2, w[i - 5][1], w[i - 5][2])]

ScenarioAInput == [id |-> 0, home |-> 1, away |-> 2, valid |-> TRUE]

InitScenarioA ==
    /\ \E w \in FiveWins, direct \in BOOLEAN : fixtures = ScenarioAFixtures(w, direct)
    /\ teamStatistics = <<>>
    /\ predictions = <<>>
    /\ apiKey \in BOOLEAN
    /\ requestCount \in IF apiKey THEN {DailyLimit - QuotaLeft} ELSE {0}
    /\ call = IdleCall
    /\ returned = NoReturn
    /\ probe = NoProbe
    /\ clean = NoClean
    /\ reqs = <<>>
    /\ nextId = 1
    /\ lastSaved = <<>>
    /\ limiter = NoLimiter
    /\ batch = NoBatch
    /\ client = NoClient

NextScenarioA ==
    \/ PredictMatch(ScenarioAInput)
    \/ Respond

SpecScenarioA == InitScenarioA /\ [][NextScenarioA]_vars

----------------------------------------------------------------------------------------------------------------------------------------
(* Scenario B: both teams come with the same form and the same statistics,  *)
(* and they never played each other.  The scenarios are numbered; scenario k *)
(* has wins, draws and losses in the recent matches (all against team 3) and *)
(* statistics anywhere within the clamp of analyzeTeamStatistics.            *)

\* n matches with the score gh : ga, the first of them i days ago
RECURSIVE Played(_, _, _, _)
Played(n, i, gh, ga) ==
    IF n = 0 THEN <<>>
    ELSE <<PlayedFixture(i, 1, 3, gh, ga)>> \o Played(n - 1, i + 1, gh, ga)

\* the recent matches of team 1 in scenario k: a win, a draw, a loss or none
ScenarioBMatches(k) ==
    Played(k % 2, 1, 3, 1) \o Played((k \div 2) % 2, 2, 0, 0)
        \o Played((k \div 4) % 2, 3, 0, 1)

\* the statistics of scenario k: strengths 0, 25, .. 100, a goal
\* differential of -20, 0 or 20, a clean sheet ratio of 0 or 50
ScenarioBStatistics(k) ==
    [homeAdvantage |-> Num(50),
     goalDifferential |-> Num((((k \div 200) % 3) - 1) * 20),
     cleanSheetRatio |-> Clamp(Num(((k \div 600) % 2) * 50)),
     scoringConsistency |-> Num(50),
     defensiveStrength |-> Clamp(Num(((k \div 40) % 5) * 25)),
     attackingStrength |-> Clamp(Num(((k \div 8) % 5) * 25))]

ScenarioBCount == 2 * 2 * 2 * 5 * 5 * 3 * 2

\* the MatchContext of generateMatchContext with the same form and the same
\* statistics on both sides
ScenarioBContext(form, stats) ==
    ContextOfResults([raised |-> FALSE, val |-> form],
                     [raised |-> FALSE, val |-> form],
                     [raised |-> FALSE, val |-> stats, count |-> 0],
                     [raised |-> FALSE, val |-> stats, count |-> 0],
                     FALSE).context

\* predictMatch takes the close-match branch for the context
CloseMatch(context, headToHeadScore) ==
    /\ ~Lt(Num(10), ScoreDifference(context, FactorScores(context, headToHeadScore)))
    /\ ~Lt(ScoreDifference(context, FactorScores(context, headToHeadScore)), Num(-10))

\* what predictMatch makes of a context: the branch taken, the probabilities
\* of the tie-break model and the result
ScenarioBOutcome(context, headToHeadScore) ==
    [close |-> CloseMatch(context, headToHeadScore),
     mlProbs |-> calculateMLProbability(context),
     result |-> ScoreContext(context, headToHeadScore)]

\* what predictMatch returns for each of the scenarios
ScenarioBOutcomes ==
    [k \in 0 .. ScenarioBCount - 1 |->
        ScenarioBOutcome(ScenarioBContext(FormOfMatches(ScenarioBMatches(k), 1, 5),
                                          ScenarioBStatistics(k)),
                         HeadToHeadOfMatches(<<>>, 1))]

InitScenarioB ==
    /\ fixtures = <<>>
    /\ teamStatistics = <<>>
    /\ predictions = <<>>
    /\ apiKey = FALSE
    /\ requestCount = 0
    /\ call = IdleCall
    /\ returned = NoReturn
    /\ probe = NoProbe
    /\ clean = NoClean
    /\ reqs = <<>>
    /\ nextId = 1
    /\ lastSaved = <<>>
    /\ limiter = NoLimiter
    /\ batch = NoBatch
    /\ client = NoClient

\* predictMatch on the next scenario, the first one again after the last
PredictScenarioB ==
    /\ probe.op \in {"none", "scenarioB"}
    /\ \E k \in 0 .. ScenarioBCount - 1 :
          /\ k = IF probe.op = "none" THEN 0 ELSE (probe.a + 1) % ScenarioBCount
          /\ probe' = [op |-> "scenarioB", a |-> k, b |-> 0, failed |-> FALSE,
                       env |-> OkEnv, count |-> requestCount, raised |-> FALSE,
                       val |-> ScenarioBOutcomes[k]]
    /\ UNCHANGED <<client, batch, limiter, storeVars, requestCount, call, returned, clean, routeVars>>

NextScenarioB == PredictScenarioB

\* predictMatch returns for every scenario: each one is predicted in turn
SpecScenarioB ==
    InitScenarioB /\ [][NextScenarioB]_vars /\ WF_vars(NextScenarioB)

----------------
(* The predictions route: GET and POST requests in flight, each advancing    *)
(* from one await to the next, and savePrediction called directly            *)

MaxRequests == 2

\* the stores of the route: fixture 1 is a completed match, fixture 2 is the
\* return match to come in two days; no API key is configured
RouteStores ==
    {f \in FixtureStores(MaxFixtures) :
        /\ DOMAIN f = {1, 2}
        /\ f[1].status = "FT" /\ f[1].home = 1
        /\ f[2].status = "NS" /\ f[2].home = 2}

\* the fixture ids of the requests; fixture 3 is not stored
FixtureIds == {1, 2, 3}


\* the bodies of the POST requests: fixture_ids, and whether it is an array
PostBodies ==
    {[ids |-> <<>>, array |-> FALSE],
     [ids |-> <<3, 1>>, array |-> TRUE],
     [ids |-> <<2, 2>>, array |-> TRUE]}

\* the Prediction object built from a result
NewPrediction(id, fixture, predictionResult) ==
    [id |-> id, fixture_id |-> fixture.id,
     home_team_id |-> fixture.home, away_team_id |-> fixture.away,
     prediction |-> predictionResult.prediction,
     confidence |-> predictionResult.confidence,
     factors |-> [home_form_score |-> predictionResult.factors.homeFormScore,
                  away_form_score |-> predictionResult.factors.awayFormScore,
                  head_to_head_score |-> predictionResult.factors.headToHeadScore,
                  home_advantage |-> predictionResult.factors.homeAdvantage,
                  goal_difference_factor |->
                      predictionResult.factors.goalDifferenceFactor]]

NewReq(kind, pc, ids, flag, existing, array) ==
    [kind |-> kind, pc |-> pc, ids |-> ids, i |-> 1, flag |-> flag,
     existing |-> existing, array |-> array, todo |-> <<>>]

\* a request that has been answered
Done == NewReq("DONE", "done", <<>>, FALSE, FALSE, TRUE)

\* reqs with request k advanced to r; the answered requests are kept first,
\* the requests in flight in the order of their arrival
Advance(k, r) ==
    IF r = Done
    THEN <<Done>> \o SubSeq(reqs, 1, k - 1) \o SubSeq(reqs, k + 1, Len(reqs))
    ELSE [reqs EXCEPT ![k] = r]

engineVars == <<fixtures, teamStatistics, apiKey, requestCount, call, returned,
                probe, clean, limiter, batch, client>>

\* await Database.savePrediction(p) with p built under a fresh id
Save(p) ==
    /\ predictions' = savePrediction(p)
    /\ lastSaved' = [lastSaved EXCEPT ![p.fixture_id] = [id |-> p.id, n |-> @.n + 1]]
    /\ nextId' = nextId + 1

NoSave == UNCHANGED <<predictions, lastSaved, nextId>>

\* GET ?fixture_id=..[&generate=true] arrives and looks the prediction up
StartGet(fixtureId, generate) ==
    /\ Len(reqs) < MaxRequests
    /\ reqs' = Append(reqs, NewReq("GET", "lookup", <<fixtureId>>, generate,
                                   getPredictionByFixtureId(fixtureId) # <<>>, TRUE))
    /\ NoSave
    /\ UNCHANGED engineVars

\* after the lookup: the cached answer, or 404, or predictMatch is called
GetLookedUp(k) ==
    /\ reqs[k].kind = "GET" /\ reqs[k].pc = "lookup"
    /\ reqs' = Advance(k, IF reqs[k].existing /\ ~reqs[k].flag THEN Done
                           ELSE IF getFixtureById(reqs[k].ids[1]) = <<>> THEN Done
                           ELSE [reqs[k] EXCEPT !.pc = "predict"])
    /\ NoSave
    /\ UNCHANGED engineVars

\* predictMatch has returned: the prediction is built and saved
GetPredicted(k) ==
    /\ reqs[k].kind = "GET" /\ reqs[k].pc = "predict"
    /\ \E e \in RouteEnvs :
          LET fixture == getFixtureById(reqs[k].ids[1])[1]
              r == predictMatch(AsInput(fixture), requestCount, e)
          IN  IF r.raised THEN NoSave
              ELSE Save(NewPrediction(nextId, fixture, r.result))
    /\ reqs' = Advance(k, Done)
    /\ UNCHANGED engineVars

\* GET ?upcoming=true&days=.. arrives: predictUpcomingMatches reads the fixtures
StartUpcoming(days) ==
    /\ Len(reqs) < MaxRequests
    /\ LET upcomingFixtures == getUpcomingFixtures(days)
       IN  reqs' = Append(reqs,
                      NewReq("UPCOMING", "predicting",
                             [i \in DOMAIN upcomingFixtures |-> upcomingFixtures[i].id],
                             FALSE, FALSE, TRUE))
    /\ NoSave
    /\ UNCHANGED engineVars

\* the batch of predictMatch calls has returned
UpcomingPredicted(k) ==
    /\ reqs[k].kind = "UPCOMING" /\ reqs[k].pc = "predicting"
    /\ \E e \in RouteEnvs :
          reqs' = Advance(k,
                     IF Len(reqs[k].ids) = 0 THEN Done
                     ELSE [reqs[k] EXCEPT
                             !.todo =
                                [i \in DOMAIN reqs[k].ids |->
                                    predictMatch(
                                        AsInput(getFixtureById(reqs[k].ids[i])[1]),
                                        requestCount, e).result],
                             !.pc = "saving"])
    /\ NoSave
    /\ UNCHANGED engineVars

\* one turn of the saving loop of GET ?upcoming=true
UpcomingSave(k) ==
    /\ reqs[k].kind = "UPCOMING" /\ reqs[k].pc = "saving"
    /\ Save(NewPrediction(nextId, getFixtureById(reqs[k].ids[reqs[k].i])[1],
                          reqs[k].todo[reqs[k].i]))
    /\ reqs' = Advance(k, IF reqs[k].i = Len(reqs[k].ids) THEN Done
                           ELSE [reqs[k] EXCEPT !.i = @ + 1])
    /\ UNCHANGED engineVars

\* POST arrives with its body still to be read
StartPost(body, regenerate) ==
    /\ Len(reqs) < MaxRequests
    /\ reqs' = Append(reqs, NewReq("POST", "body", body.ids, regenerate, FALSE,
                                   body.array))
    /\ NoSave
    /\ UNCHANGED engineVars

\* the body is read: 400 unless fixture_ids is an array
PostParsed(k) ==
    /\ reqs[k].kind = "POST" /\ reqs[k].pc = "body"
    /\ reqs' = Advance(k, IF reqs[k].array THEN [reqs[k] EXCEPT !.pc = "loop"]
                           ELSE Done)
    /\ NoSave
    /\ UNCHANGED engineVars

\* the next fixture id of the loop
PostNext(r) == [r EXCEPT !.i = @ + 1, !.pc = "loop", !.existing = FALSE]

\* after the fixture lookup of a turn: skip the id, or call predictMatch
PostFetch(r) ==
    IF getFixtureById(r.ids[r.i]) = <<>> THEN PostNext(r)
    ELSE [r EXCEPT !.pc = "predict"]

\* the head of the loop: the end, the lookup of an existing prediction, or
\* with regenerate the lookup of the fixture
PostIterate(k) ==
    /\ reqs[k].kind = "POST" /\ reqs[k].pc = "loop"
    /\ reqs' = Advance(k,
                   IF reqs[k].i > Len(reqs[k].ids) THEN Done
                   ELSE IF ~reqs[k].flag
                   THEN [reqs[k] EXCEPT
                           !.pc = "lookup",
                           !.existing =
                              getPredictionByFixtureId(reqs[k].ids[reqs[k].i]) # <<>>]
                   ELSE PostFetch(reqs[k]))
    /\ NoSave
    /\ UNCHANGED engineVars

\* after the lookup of an existing prediction
PostLookedUp(k) ==
    /\ reqs[k].kind = "POST" /\ reqs[k].pc = "lookup"
    /\ reqs' = Advance(k, IF reqs[k].existing THEN PostNext(reqs[k])
                           ELSE PostFetch(reqs[k]))
    /\ NoSave
    /\ UNCHANGED engineVars

\* predictMatch has returned in the loop: the prediction is built and saved
PostPredicted(k) ==
    /\ reqs[k].kind = "POST" /\ reqs[k].pc = "predict"
    /\ \E e \in RouteEnvs :
          LET fixture == getFixtureById(reqs[k].ids[reqs[k].i])[1]
              r == predictMatch(AsInput(fixture), requestCount, e)
          IN  IF r.raised THEN NoSave
              ELSE Save(NewPrediction(nextId, fixture, r.result))
    /\ reqs' = Advance(k, PostNext(reqs[k]))
    /\ UNCHANGED engineVars

\* another caller saves a prediction for a fixture id
SavePrediction(fixtureId) ==
    /\ Len(reqs) < MaxRequests
    /\ reqs' = <<Done>> \o reqs
    /\ Save(NewPrediction(nextId, [id |-> fixtureId, home |-> 0, away |-> 0],
                          FallbackResult))
    /\ UNCHANGED engineVars

InitStore ==
    /\ fixtures \in RouteStores
    /\ teamStatistics = <<>>
    /\ predictions = <<>>
    /\ apiKey = FALSE
    /\ requestCount = 0
    /\ call = IdleCall
    /\ returned = NoReturn
    /\ probe = NoProbe
    /\ clean = NoClean
    /\ reqs = <<>>
    /\ nextId = 1
    /\ lastSaved = [f \in FixtureIds |-> [id |-> 0, n |-> 0]]
    /\ limiter = NoLimiter
    /\ batch = NoBatch
    /\ client = NoClient

NextStore ==
    \/ \E f \in FixtureIds, generate \in BOOLEAN : StartGet(f, generate)
    \/ \E days \in UpcomingDays : StartUpcoming(days)
    \/ \E body \in PostBodies, regenerate \in BOOLEAN : StartPost(body, regenerate)
    \/ \E f \in FixtureIds : SavePrediction(f)
    \/ \E k \in DOMAIN reqs :
          \/ GetLookedUp(k)
          \/ GetPredicted(k)
          \/ UpcomingPredicted(k)
          \/ UpcomingSave(k)
          \/ PostParsed(k)
          \/ PostIterate(k)
          \/ PostLookedUp(k)
          \/ PostPredicted(k)

SpecStore == InitStore /\ [][NextStore]_vars

----------------------------------------------------------------------------
(* analyzeTeamStatistics over a store with several seasons of one team       *)

MaxSeasons == 3

\* mockDB.teamStatistics with up to MaxSeasons season records of team 1
SeasonStores ==
    {s \in StatStores(MaxSeasons) : \A i \in DOMAIN s : s[i].team_id = 1}

InitSeasons ==
    /\ StoreInit({[fixtures |-> <<>>, teamStatistics |-> s] : s \in SeasonStores})
    /\ call = IdleCall
    /\ returned = NoReturn
    /\ probe = NoProbe
    /\ clean = NoClean
    /\ reqs = <<>>
    /\ nextId = 1
    /\ lastSaved = <<>>
    /\ limiter = NoLimiter
    /\ batch = NoBatch
    /\ client = NoClient

NextSeasons ==
    \/ AnalyzeTeamStatistics(1)
    \/ Respond

SpecSeasons == InitSeasons /\ [][NextSeasons]_vars

----------------------------------------------------------------------------
(* analyzeHeadToHead over a store with a long history between two teams      *)

MaxHistory == 12

HistoryScores == {<<1, 0>>, <<0, 0>>, <<0, 1>>}

\* A store of n completed matches between teams 1 and 2, alternating the home
\* side, with the scores of the pattern p in turn and with distinct dates in
\* the past that do not follow the order of arrival; with others, a completed
\* match against a third team and a match of the two that is not played yet
\* are stored as well.
HistoryStore(n, shift, p, others) ==
    [i \in 1 .. n |->
        [id |-> i, home |-> IF i % 2 = 0 THEN 1 ELSE 2,
         away |-> IF i % 2 = 0 THEN 2 ELSE 1,
         gh |-> p[(i % 3) + 1][1], ga |-> p[(i % 3) + 1][2], status |-> "FT",
         date |-> 0 - (((i + shift) % n) + 1)]]
    \o (IF others
        THEN <<[id |-> n + 1, home |-> 1, away |-> 3, gh |-> 3, ga |-> 0,
                status |-> "FT", date |-> -1],
               [id |-> n + 2, home |-> 1, away |-> 2, gh |-> Null, ga |-> Null,
                status |-> "NS", date |-> 1]>>
        ELSE <<>>)

HistoryStores ==
    {HistoryStore(ns[1], ns[2], p, others) :
        ns \in {x \in (1 .. MaxHistory) \X (0 .. MaxHistory - 1) : x[2] < x[1]},
        p \in [1 .. 3 -> HistoryScores], others \in BOOLEAN}

InitHistory ==
    /\ StoreInit({[fixtures |-> f, teamStatistics |-> <<>>] : f \in HistoryStores})
    /\ call = IdleCall
    /\ returned = NoReturn
    /\ probe = NoProbe
    /\ clean = NoClean
    /\ reqs = <<>>
    /\ nextId = 1
    /\ lastSaved = <<>>
    /\ limiter = NoLimiter
    /\ batch = NoBatch
    /\ client = NoClient

NextHistory ==
    \/ \E t1, t2 \in Teams : AnalyzeHeadToHead(t1, t2)
    \/ Respond

SpecHistory == InitHistory /\ [][NextHistory]_vars

----------------------------------------------------------------------------
(* predictMatch from the context to the result, over a grid of contexts      *)

\* the form of a team that took p points from its last five matches
FormWithPoints(p) ==
    [wins |-> p \div 3, draws |-> p % 3, losses |-> 5 - (p \div 3) - (p % 3),
     goalsFor |-> p \div 3, goalsAgainst |-> 5 - (p \div 3) - (p % 3),
     points |-> p, formScore |-> Mul(Div(Num(p), Num(15)), Num(100))]

ScoringForms == {FormWithPoints(0), FormWithPoints(6), FormWithPoints(15), NeutralForm}

\* attacking and defensive strength of a side
ScoringStrengths == {Num(0), Num(15), Num(50), Rat(505, 7), Num(100)}

\* the statistics of a side with the strength s and the goal differential g
ScoringStatistics(s, g) ==
    [homeAdvantage |-> Num(50), goalDifferential |-> Num(g),
     cleanSheetRatio |-> Num(0), scoringConsistency |-> Num(50),
     defensiveStrength |-> s, attackingStrength |-> s]

HomeStatistics ==
    {ScoringStatistics(s, g) : s \in ScoringStrengths, g \in {-1000, -760, -20, 0, 20}}

AwayStatistics ==
    {ScoringStatistics(s, g) : s \in ScoringStrengths, g \in {-20, 0, 20}}

HeadToHeadScores == {Num(0), Rat(100, 3), Num(50), Num(100)}

\* the MatchContext of generateMatchContext for the results of the analyzers
ScoringContext(homeForm, awayForm, homeStats, awayStats) ==
    ContextOfResults([raised |-> FALSE, val |-> homeForm],
                     [raised |-> FALSE, val |-> awayForm],
                     [raised |-> FALSE, val |-> homeStats, count |-> 0],
                     [raised |-> FALSE, val |-> awayStats, count |-> 0],
                     FALSE).context

\* the locals of predictMatch and what it returns; thrown: its body throws
ScoringOutcome(context, headToHeadScore, thrown) ==
    [context |-> context,
     factors |-> FactorScores(context, headToHeadScore),
     homeScore |-> HomeScore(context, FactorScores(context, headToHeadScore)),
     awayScore |-> AwayScore(context, FactorScores(context, headToHeadScore)),
     mlProbs |-> calculateMLProbability(context),
     decision |-> Decide(ScoreDifference(context, FactorScores(context, headToHeadScore)),
                         calculateMLProbability(context)),
     result |-> PredictCatch(thrown, ScoreContext(context, headToHeadScore)).result]

InitScoring ==
    /\ fixtures = <<>>
    /\ teamStatistics = <<>>
    /\ predictions = <<>>
    /\ apiKey = FALSE
    /\ requestCount = 0
    /\ call = IdleCall
    /\ returned = NoReturn
    /\ probe = NoProbe
    /\ clean = NoClean
    /\ reqs = <<>>
    /\ nextId = 1
    /\ lastSaved = <<>>
    /\ limiter = NoLimiter
    /\ batch = NoBatch
    /\ client = NoClient

\* predictMatch once generateMatchContext and analyzeHeadToHead have returned
PredictScoring ==
    /\ probe.op = "none"
    /\ \E homeForm, awayForm \in ScoringForms, homeStats \in HomeStatistics,
          awayStats \in AwayStatistics, headToHeadScore \in HeadToHeadScores,
          thrown \in BOOLEAN :
          probe' = [op |-> "score", a |-> 1, b |-> 2, failed |-> thrown,
                    env |-> OkEnv, count |-> requestCount, raised |-> FALSE,
                    val |-> ScoringOutcome(ScoringContext(homeForm, awayForm,
                                                          homeStats, awayStats),
                                           headToHeadScore, thrown)]
    /\ UNCHANGED <<client, batch, limiter, storeVars, requestCount, call, returned, clean, routeVars>>

NextScoring ==
    \/ PredictScoring
    \/ Respond

SpecScoring == InitScoring /\ [][NextScoring]_vars

----------------------------------------------------------------------------
(* The client store (useAppStore): API actions started by the pages, each    *)
(* advancing from one await to the next                                      *)

\* the fixture a prediction is generated for
ClientFixtureId == 1

\* data.error of a response without success: absent, or a message
ResponseErrors == {"", "Internal server error"}

\* what a rejected await throws: an Error with a message, or another value
Thrown == {"Failed to fetch", ""}

\* data.error || 'Failed to ...'
DefaultError(a) ==
    IF a = "fetchTeams" THEN "Failed to fetch teams"
    ELSE IF a = "fetchFixtures" THEN "Failed to fetch fixtures"
    ELSE IF a = "fetchStandings" THEN "Failed to fetch standings"
    ELSE IF a = "fetchPredictions" THEN "Failed to fetch predictions"
    ELSE "Failed to generate prediction"

\* set({ loading: true, error: null }) and the call of fetch
Started(c, a) == [c EXCEPT !.loading = TRUE, !.error = "null", !.pc[a] = "fetch"]

\* the catch block: error.message of an Error, else 'Unknown error'
Caught(c, a, thrown) ==
    [c EXCEPT !.error = IF thrown = "" THEN "Unknown error" ELSE thrown,
              !.loading = FALSE, !.pc[a] = "idle"]

\* the branch for data.success; served: the predictions the server listed
Succeeded(c, a, served) ==
    [c EXCEPT !.loaded = IF a \in {"fetchTeams", "fetchFixtures", "fetchStandings"}
                         THEN c.loaded \cup {a} ELSE c.loaded,
              !.predictions = IF a = "fetchPredictions" THEN served
                              ELSE IF a = "generatePrediction"
                              THEN (c.predictions \ {ClientFixtureId})
                                      \cup {ClientFixtureId}
                              ELSE c.predictions,
              !.loading = FALSE, !.pc[a] = "idle"]

\* the branch for a response without success
Failed(c, a, error) ==
    [c EXCEPT !.error = IF error = "" THEN DefaultError(a) ELSE error,
              !.loading = FALSE, !.pc[a] = "idle"]

\* a page calls one API action
StartAction(a) ==
    /\ client.pc[a] = "idle"
    /\ client' = Started(client, a)
    /\ UNCHANGED <<storeVars, requestCount, call, returned, probeVars, routeVars,
                   limiter, batch>>

\* loadDashboardData: Promise.all over three actions, each run up to its
\* first await when the array is built
LoadDashboardData ==
    /\ client.pc["fetchFixtures"] = "idle"
    /\ client.pc["fetchStandings"] = "idle"
    /\ client.pc["fetchPredictions"] = "idle"
    /\ client' = Started(Started(Started(client, "fetchFixtures"), "fetchStandings"),
                         "fetchPredictions")
    /\ UNCHANGED <<storeVars, requestCount, call, returned, probeVars, routeVars,
                   limiter, batch>>

\* await fetch(...) settles
FetchSettled(a) ==
    /\ client.pc[a] = "fetch"
    /\ \/ client' = [client EXCEPT !.pc[a] = "json"]
       \/ \E thrown \in Thrown : client' = Caught(client, a, thrown)
    /\ UNCHANGED <<storeVars, requestCount, call, returned, probeVars, routeVars,
                   limiter, batch>>

\* await response.json() settles, and the rest of the action runs
JsonSettled(a) ==
    /\ client.pc[a] = "json"
    /\ \/ \E served \in SUBSET {ClientFixtureId} : client' = Succeeded(client, a, served)
       \/ \E error \in ResponseErrors : client' = Failed(client, a, error)
       \/ \E thrown \in Thrown : client' = Caught(client, a, thrown)
    /\ UNCHANGED <<storeVars, requestCount, call, returned, probeVars, routeVars,
                   limiter, batch>>

\* the Dismiss button: setError(null)
DismissError ==
    /\ client.error # "null"
    /\ client' = [client EXCEPT !.error = "null"]
    /\ UNCHANGED <<storeVars, requestCount, call, returned, probeVars, routeVars,
                   limiter, batch>>

InitClient ==
    /\ fixtures = <<>>
    /\ teamStatistics = <<>>
    /\ predictions = <<>>
    /\ apiKey = FALSE
    /\ requestCount = 0
    /\ call = IdleCall
    /\ returned = NoReturn
    /\ probe = NoProbe
    /\ clean = NoClean
    /\ reqs = <<>>
    /\ nextId = 1
    /\ lastSaved = <<>>
    /\ limiter = NoLimiter
    /\ batch = NoBatch
    /\ client = NoClient

NextClient ==
    \/ \E a \in ClientActions : StartAction(a)
    \/ LoadDashboardData
    \/ \E a \in ClientActions : FetchSettled(a)
    \/ \E a \in ClientActions : JsonSettled(a)
    \/ DismissError

SpecClient == InitClient /\ [][NextClient]_vars

----------------------------------------------------------------------------
(* Properties of predictMatch followed step by step (Spec) *)

Outcomes == {"HOME_WIN", "DRAW", "AWAY_WIN"}

\* C1: predictMatch is total.  Whatever the fixture value and whatever the
\* lookups do, a call that has returned has resolved to a result carrying
\* one of the three outcomes; it has not rejected.
C1_PredictMatchTotal ==
    returned.done => (~returned.raised /\ returned.result.prediction \in Outcomes)

\* a call on a fixture with two teams has returned after a lookup threw
C1_Witness ==
    /\ returned.done
    /\ returned.fixture.valid
    /\ returned.thrown
    /\ ~returned.raised

\* C2: when an exception reaches predictMatch (from the context, from the
\* head-to-head analysis or from the scoring), the result is DRAW with
\* confidence 30 and the factors 50, 50, 50, 0, 50.
C2_FallbackOnFailure ==
    (returned.done /\ returned.thrown) =>
        /\ returned.result.prediction = "DRAW"
        /\ returned.result.confidence = Num(30)
        /\ returned.result.factors =
              [homeFormScore |-> Num(50), awayFormScore |-> Num(50),
               headToHeadScore |-> Num(50), homeAdvantage |-> Num(0),
               goalDifferenceFactor |-> Num(50)]

\* the context was rejected while other tasks of it were still running, and
\* the call has returned the fallback
C2_Witness ==
    /\ returned.done
    /\ returned.thrown
    /\ call.pc = "draining"
    /\ \E s \in Slots : call[s].st = "pending"
    /\ returned.result.confidence = Num(30)

\* C11: fan-out/fan-in.  Whenever a predictMatch call returns a result that
\* was scored (no exception reached the catch block), the two form analyses,
\* the two statistics analyses and the head-to-head lookup of its context had
\* all completed before that step: none was pending or rejected.
C11_ScoreAfterAllTasks ==
    [][(~returned.done /\ returned'.done /\ ~returned'.thrown) =>
          (call.pc = "context" /\ \A s \in Slots : call[s].st = "done")]_vars

\* a scored result has been returned for a fixture with two teams
C11_Witness ==
    /\ returned.done
    /\ ~returned.thrown
    /\ returned.fixture.valid
    /\ returned.result.factors.homeAdvantage = Num(15)
    /\ call.pc = "idle"

\* the factors with another head-to-head score
WithHeadToHead(factors, score) == [factors EXCEPT !.headToHeadScore = score]

\* C16: the headToHeadScore factor of a regular prediction is what
\* analyzeHeadToHead(home, away) returned, the score from the home team's
\* perspective (50 when its lookup threw);
\* it adds exactly headToHeadScore * 0.10 to homeScore and exactly
\* (100 - headToHeadScore) * 0.10 to awayScore; the two contributions sum to
\* 10, and below a score of 50 the away side receives the larger one.
C16_HeadToHeadContribution ==
    [][(~returned.done /\ returned'.done /\ ~returned'.thrown) =>
         /\ \E threw \in BOOLEAN :
               StrictEq(returned'.result.factors.headToHeadScore,
                        analyzeHeadToHead(call.fixture.home, call.fixture.away,
                                          threw).val)
         /\ StrictEq(Sub(HomeScore(ContextOf(call), returned'.result.factors),
                         HomeScore(ContextOf(call),
                                   WithHeadToHead(returned'.result.factors, Num(0)))),
                     Mul(returned'.result.factors.headToHeadScore, Rat(1, 10)))
         /\ StrictEq(Sub(AwayScore(ContextOf(call), returned'.result.factors),
                         AwayScore(ContextOf(call),
                                   WithHeadToHead(returned'.result.factors, Num(100)))),
                     Mul(Sub(Num(100), returned'.result.factors.headToHeadScore),
                         Rat(1, 10)))
         /\ StrictEq(Sub(Add(HomeScore(ContextOf(call), returned'.result.factors),
                             AwayScore(ContextOf(call), returned'.result.factors)),
                         Add(HomeScore(ContextOf(call),
                                       WithHeadToHead(returned'.result.factors, Num(0))),
                             AwayScore(ContextOf(call),
                                       WithHeadToHead(returned'.result.factors,
                                                      Num(100))))),
                     Num(10))
         /\ (Lt(returned'.result.factors.headToHeadScore, Num(50)) =>
               Lt(Mul(returned'.result.factors.headToHeadScore, Rat(1, 10)),
                  Sub(AwayScore(ContextOf(call), returned'.result.factors),
                      AwayScore(ContextOf(call),
                                WithHeadToHead(returned'.result.factors, Num(100))))))
      ]_vars

\* a regular prediction for a pair whose only match the away team won
C16_Witness ==
    /\ returned.done /\ ~returned.thrown /\ returned.fixture.valid
    /\ returned.result.factors.headToHeadScore = Num(0)
    /\ Len(getHeadToHeadRecords(returned.fixture.home, returned.fixture.away, 10)) > 0

\* C17: a step of predictMatch, or of an analyzer it runs, changes no shared
\* state: the stored fixtures, season statistics and predictions and the
\* module-level state of the API client stay as they are.
C17_NoSharedStateChange ==
    [][(call' # call \/ returned' # returned) =>
         UNCHANGED <<fixtures, teamStatistics, predictions, requestCount>>]_vars

----------------------------------------------------------------------------
(* Properties of the engine called directly (SpecAnalyzers) *)

\* C3: every result of predictMatch has an integer confidence between 30
\* and 95 and one of the three outcomes.
C3_ConfidenceAndOutcome ==
    probe.op = "predict" =>
        /\ IsInteger(probe.val.confidence)
        /\ InRange(probe.val.confidence, 30, 95)
        /\ probe.val.prediction \in Outcomes

\* a prediction computed from stored matches, with the away side ahead
C3_Witness ==
    /\ probe.op = "predict"
    /\ ~probe.failed
    /\ probe.val.prediction = "AWAY_WIN"
    /\ Lt(Num(60), probe.val.confidence)

\* C4: determinism.  A predictMatch call in which every lookup succeeds
\* returns the result that the last such call for the same fixture returned:
\* the store and the date are the same throughout a behaviour.
C4_Determinism ==
    (/\ probe.op = "predict"
     /\ ~probe.failed
     /\ clean.has
     /\ clean.fixture.home = probe.a
     /\ clean.fixture.away = probe.b) => probe.val = clean.result

NoCompletedMatch(teamId) ==
    \A i \in DOMAIN fixtures :
        ~((fixtures[i].home = teamId \/ fixtures[i].away = teamId)
          /\ fixtures[i].status = "FT")

\* C5: for a team without a completed match, when the lookup succeeds,
\* analyzeTeamForm gives formScore 50 and zero wins, draws, losses, goals
\* for and goals against.
C5_FormWithoutMatches ==
    (probe.op = "form" /\ ~probe.failed /\ NoCompletedMatch(probe.a)) =>
        /\ probe.val.formScore = Num(50)
        /\ probe.val.wins = 0
        /\ probe.val.draws = 0
        /\ probe.val.losses = 0
        /\ probe.val.goalsFor = 0
        /\ probe.val.goalsAgainst = 0

\* season i gives nothing for the team: the lookup fails, or there is no
\* record, or the record has played = 0
SeasonEmpty(teamId, i, env) ==
    LET stats == getTeamStatistics(teamId, getAnalysisSeasons[i].season)
    IN  env.db[i] \/ stats = <<>> \/ stats[1].played = 0

\* C6: when none of the three analysis seasons contributes for a team,
\* analyzeTeamStatistics returns homeAdvantage 50, goalDifferential 0,
\* cleanSheetRatio 0, scoringConsistency 50, defensiveStrength 50,
\* attackingStrength 50 and does not raise.
C6_NeutralStatistics ==
    (/\ probe.op = "stats"
     /\ \A i \in DOMAIN getAnalysisSeasons : SeasonEmpty(probe.a, i, probe.env)) =>
        /\ ~probe.raised
        /\ probe.val =
              [homeAdvantage |-> Num(50), goalDifferential |-> Num(0),
               cleanSheetRatio |-> Num(0), scoringConsistency |-> Num(50),
               defensiveStrength |-> Num(50), attackingStrength |-> Num(50)]

\* the database was read, and the one record of the team has played = 0
C6_Witness ==
    /\ probe.op = "stats"
    /\ ~probe.env.importFails
    /\ ~apiKey
    /\ \E i \in DOMAIN teamStatistics :
          teamStatistics[i].team_id = probe.a /\ teamStatistics[i].played = 0
    /\ \A i \in DOMAIN getAnalysisSeasons : SeasonEmpty(probe.a, i, probe.env)
    /\ probe.val.homeAdvantage = Num(50)

NoCompletedMatchBetween(team1Id, team2Id) ==
    \A i \in DOMAIN fixtures :
        ~(/\ \/ (fixtures[i].home = team1Id /\ fixtures[i].away = team2Id)
             \/ (fixtures[i].home = team2Id /\ fixtures[i].away = team1Id)
          /\ fixtures[i].status = "FT")

\* C7: analyzeHeadToHead(a, b) returns 50 when the store has no completed
\* match between a and b, whoever was at home.
C7_HeadToHeadWithoutHistory ==
    (probe.op = "h2h" /\ ~probe.failed /\ NoCompletedMatchBetween(probe.a, probe.b)) =>
        (~probe.raised /\ probe.val = Num(50))

\* the two teams have a fixture, which is not played yet
C7_Witness ==
    /\ probe.op = "h2h"
    /\ ~probe.failed
    /\ probe.a # probe.b
    /\ \E i \in DOMAIN fixtures :
          /\ {fixtures[i].home, fixtures[i].away} = {probe.a, probe.b}
          /\ fixtures[i].status = "NS"
    /\ NoCompletedMatchBetween(probe.a, probe.b)
    /\ probe.val = Num(50)

\* every lookup that the statistics call makes throws
AllLookupsThrow(env, count) ==
    \/ env.importFails
    \/ /\ \A i \in DOMAIN env.db : env.db[i]
       /\ \A i \in DOMAIN env.net :
             (apiKey /\ canMakeRequest(CountBefore(i, count, env.net)))
                => env.net[i] # "ok"

\* C8: an analyzer whose lookup throws returns its neutral value
\* (analyzeTeamForm: formScore 50 and zero counts; analyzeTeamStatistics: the
\* neutral tuple; analyzeHeadToHead: 50), and no analyzer raises.
C8_AnalyzersAbsorbFailure ==
    /\ probe.op \in {"form", "stats", "h2h"} => ~probe.raised
    /\ (probe.op = "form" /\ probe.failed) =>
          probe.val = [wins |-> 0, draws |-> 0, losses |-> 0, goalsFor |-> 0,
                       goalsAgainst |-> 0, points |-> 0, formScore |-> Num(50)]
    /\ (probe.op = "stats" /\ AllLookupsThrow(probe.env, probe.count)) =>
          probe.val =
              [homeAdvantage |-> Num(50), goalDifferential |-> Num(0),
               cleanSheetRatio |-> Num(0), scoringConsistency |-> Num(50),
               defensiveStrength |-> Num(50), attackingStrength |-> Num(50)]
    /\ (probe.op = "h2h" /\ probe.failed) => probe.val = Num(50)

\* the form lookup threw for a team that has a completed match
C8_Witness ==
    /\ probe.op = "form"
    /\ probe.failed
    /\ ~NoCompletedMatch(probe.a)
    /\ ~probe.raised
    /\ probe.val.formScore = Num(50)

\* C9: the five 0-100 values of analyzeTeamStatistics are numbers between 0
\* and 100 for every set of season records, and so are the four 0-100 factors
\* of every result of predictMatch.
C9_ScoresInRange ==
    /\ probe.op = "stats" =>
          /\ InRange(probe.val.homeAdvantage, 0, 100)
          /\ InRange(probe.val.cleanSheetRatio, 0, 100)
          /\ InRange(probe.val.scoringConsistency, 0, 100)
          /\ InRange(probe.val.defensiveStrength, 0, 100)
          /\ InRange(probe.val.attackingStrength, 0, 100)
    /\ probe.op = "predict" =>
          /\ InRange(probe.val.factors.homeFormScore, 0, 100)
          /\ InRange(probe.val.factors.awayFormScore, 0, 100)
          /\ InRange(probe.val.factors.headToHeadScore, 0, 100)
          /\ InRange(probe.val.factors.goalDifferenceFactor, 0, 100)

\* C12: generateMatchContext never fails.  For a fixture with two teams it
\* resolves, whatever the lookups do, to a context with homeAdvantage 15.
C12_ContextNeverFails ==
    probe.op = "context" =>
        (~probe.raised /\ probe.val.homeAdvantage = Num(15))

\* C13: scenario A.  With the home team on five wins (15 goals to 2), the
\* away team on five losses (2 goals to 15), no season statistics and every
\* lookup succeeding, predictMatch returns HOME_WIN with confidence >= 75.
C13_ScenarioA ==
    (probe.op = "predict" /\ ~probe.failed /\ Len(fixtures) >= 5) =>
        /\ probe.val.prediction = "HOME_WIN"
        /\ Le(Num(75), probe.val.confidence)

\* the scenario was predicted from ten matches against a third team
C13_Witness ==
    /\ probe.op = "predict"
    /\ ~probe.failed
    /\ Len(fixtures) = 10
    /\ FormOfMatches(getTeamRecentForm(1, 5), 1, 5).goalsFor = 15
    /\ FormOfMatches(getTeamRecentForm(2, 5), 2, 5).goalsAgainst = 15
    /\ FormOfMatches(getTeamRecentForm(2, 5), 2, 5).losses = 5
    /\ probe.val.prediction = "HOME_WIN"

\* C14: scenario B.  There is a context with the same form and the same
\* statistics for both teams and no head-to-head history for which predictMatch
\* takes the close-match branch and returns DRAW with a confidence in [45, 75].
C14_DrawProducible ==
    <>(/\ probe.op = "scenarioB"
       /\ probe.val.close
       /\ probe.val.result.prediction = "DRAW"
       /\ InRange(probe.val.result.confidence, 45, 75))

\* C15: the three probabilities of the tie-break model are each non-negative
\* and sum to exactly 1, and the draw probability is at least 0.1.
C15_ProbabilitiesSumToOne ==
    probe.op = "scenarioB" =>
        /\ Le(Num(0), probe.val.mlProbs.homeWin)
        /\ Le(Num(0), probe.val.mlProbs.awayWin)
        /\ Le(Rat(1, 10), probe.val.mlProbs.draw)
        /\ StrictEq(Add(Add(probe.val.mlProbs.homeWin, probe.val.mlProbs.draw),
                        probe.val.mlProbs.awayWin),
                    Num(1))

\* C18: whatever the number of concurrent callers and the outcomes of their
\* requests, no more than DailyLimit requests are sent to the API within one
\* calendar day.
C18_WithinDailyLimit == limiter.sent <= DailyLimit

\* the request for season i is sent
ApiSent(i, count, env) ==
    apiKey /\ ~env.importFails /\ canMakeRequest(CountBefore(i, count, env.net))

\* the API path gave at least one season, so the database is not read
ApiPath(count, env) ==
    \E i \in DOMAIN getAnalysisSeasons : ApiSent(i, count, env) /\ env.net[i] = "ok"

\* the lookup for season i was made and threw
SeasonThrew(i, count, env) ==
    \/ ApiSent(i, count, env) /\ env.net[i] # "ok"
    \/ ~env.importFails /\ ~ApiPath(count, env) /\ env.db[i]

\* The lookup for season i returned the statistics of a season with matches
\* played: an answer of the API, or a database record with played > 0.
SeasonAnswered(teamId, i, count, env) ==
    \/ ApiSent(i, count, env) /\ env.net[i] = "ok"
    \/ ~env.importFails /\ ~ApiPath(count, env) /\ ~SeasonEmpty(teamId, i, env)

\* the weights of the seasons of s whose lookup was answered
AnsweredWeights(teamId, count, env) ==
    [i \in DOMAIN getAnalysisSeasons |->
        IF SeasonAnswered(teamId, i, count, env) THEN getAnalysisSeasons[i].weight
        ELSE Num(0)]

\* C19: season lookups fail independently, in the API path and in the
\* database path.  When the lookup for a season throws, analyzeTeamStatistics
\* does not raise, and every season whose lookup returned statistics still
\* contributes: the weight the result is divided by is the sum of the weights
\* of the answered seasons.
C19_SeasonsFailIndependently ==
    (/\ probe.op = "stats"
     /\ \E i \in DOMAIN getAnalysisSeasons : SeasonThrew(i, probe.count, probe.env)) =>
        /\ ~probe.raised
        /\ probe.val =
              Normalized(WeightedFrom(1,
                  StatisticsData(probe.a, probe.env,
                                 ApiResults(probe.a, probe.count, probe.env)),
                  ZeroWeighted))
        /\ WeightedFrom(1,
                StatisticsData(probe.a, probe.env,
                               ApiResults(probe.a, probe.count, probe.env)),
                ZeroWeighted).totalWeight
             = SumSeq(AnsweredWeights(probe.a, probe.count, probe.env))

----------------------------------------------------------------------------
(* Properties of predictUpcomingMatches (SpecBatch) *)

\* the predictMatch calls in flight
InFlight == {j \in DOMAIN batch.slots : batch.slots[j].st = "pending"}

\* the number of batches n fixtures are processed in
BatchCount(n) == (n + batchSize - 1) \div batchSize

\* C20: predictUpcomingMatches processes the upcoming fixtures in consecutive
\* batches of at most batchSize.  At most batchSize predictMatch calls are in
\* flight; while a batch runs, the predictions of all earlier batches have
\* been gathered and one pause has elapsed per earlier batch; a pause is
\* taken only when another batch follows; the returned array holds one
\* {fixture, prediction} entry per upcoming fixture, in the fixtures' order.
C20_BatchesOfFive ==
    /\ Cardinality(InFlight) <= batchSize
    /\ Len(batch.slots) <= batchSize
    /\ batch.pc \in {"running", "pause"} =>
          /\ Len(batch.predictions) \in {batch.i, batch.i + Len(batch.slots)}
          /\ InFlight # {} => Len(batch.predictions) = batch.i
          /\ batch.pauses * batchSize = batch.i
          /\ \A j \in DOMAIN batch.slots :
                batch.slots[j].fixture = batch.upcomingFixtures[batch.i + j]
    /\ batch.pc = "pause" =>
          /\ InFlight = {}
          /\ batch.i + batchSize < Len(batch.upcomingFixtures)
    /\ batch.pc = "done" =>
          /\ batch.pauses =
                IF Len(getUpcomingFixtures(batch.days)) = 0 THEN 0
                ELSE BatchCount(Len(getUpcomingFixtures(batch.days))) - 1
          /\ Len(batch.out) = Len(getUpcomingFixtures(batch.days))
          /\ \A k \in DOMAIN batch.out :
                /\ batch.out[k].fixture = getUpcomingFixtures(batch.days)[k]
                /\ \E e \in RouteEnvs :
                      batch.out[k].prediction =
                         predictMatch(AsInput(batch.out[k].fixture), requestCount,
                                      e).result

\* eleven upcoming fixtures were predicted in three batches with two pauses
C20_Witness ==
    /\ batch.pc = "done"
    /\ Len(batch.out) = 2 * batchSize + 1
    /\ batch.pauses = 2
    /\ batch.out[1].fixture.id > batch.out[2].fixture.id

----------------------------------------------------------------------------
(* Properties of the analyzers, stated over the store *)

\* the positions in mockDB.fixtures of the completed matches of a team
CompletedOf(teamId) ==
    {i \in DOMAIN fixtures :
        /\ fixtures[i].home = teamId \/ fixtures[i].away = teamId
        /\ fixtures[i].status = "FT"}

\* the goals of teamId and of its opponent in the fixture at position i
GoalsOfTeam(i, teamId) ==
    IF fixtures[i].home = teamId THEN GoalsOrZero(fixtures[i].gh)
    ELSE GoalsOrZero(fixtures[i].ga)

GoalsOfOpponent(i, teamId) ==
    IF fixtures[i].home = teamId THEN GoalsOrZero(fixtures[i].ga)
    ELSE GoalsOrZero(fixtures[i].gh)

\* S holds the n most recent of the positions in all, or all of them
MostRecentOf(S, all, n) ==
    /\ S \subseteq all
    /\ Cardinality(S) = IF n < Cardinality(all) THEN n ELSE Cardinality(all)
    /\ \A i \in S, j \in all \ S : fixtures[i].date >= fixtures[j].date

\* C21: for a match count N >= 1 and a lookup that succeeds, analyzeTeamForm
\* examines the min(N, available) most recent completed matches of the team,
\* counts each as a win, a draw or a loss from the team's own role, and
\* returns formScore = (3 * wins + draws) / (3 * N) * 100, within [0, 100].
C21_FormOverRecentMatches ==
    (probe.op = "form" /\ ~probe.failed /\ probe.b >= 1) =>
        /\ ~probe.raised
        /\ \E S \in SUBSET CompletedOf(probe.a) :
              /\ MostRecentOf(S, CompletedOf(probe.a), probe.b)
              /\ probe.val.wins =
                    Cardinality({i \in S : GoalsOfTeam(i, probe.a)
                                              > GoalsOfOpponent(i, probe.a)})
              /\ probe.val.draws =
                    Cardinality({i \in S : GoalsOfTeam(i, probe.a)
                                              = GoalsOfOpponent(i, probe.a)})
              /\ probe.val.losses =
                    Cardinality({i \in S : GoalsOfTeam(i, probe.a)
                                              < GoalsOfOpponent(i, probe.a)})
              /\ probe.val.wins + probe.val.draws + probe.val.losses = Cardinality(S)
        /\ probe.val.points = (3 * probe.val.wins) + probe.val.draws
        /\ probe.val.formScore =
              Mul(Rat((3 * probe.val.wins) + probe.val.draws, 3 * probe.b), Num(100))
        /\ InRange(probe.val.formScore, 0, 100)

\* the more recent of two completed matches was examined alone: a draw after
\* a match that was not one
C21_Witness ==
    /\ probe.op = "form" /\ ~probe.failed /\ probe.b = 1
    /\ Cardinality(CompletedOf(probe.a)) = 2
    /\ probe.val.draws = 1
    /\ \E i \in CompletedOf(probe.a) :
          GoalsOfTeam(i, probe.a) # GoalsOfOpponent(i, probe.a)

\* season i contributes for the team: the database is read, the lookup
\* returns a record, and the record has played > 0
SeasonContributes(teamId, i, count, env) ==
    /\ ~env.importFails
    /\ ~ApiPath(count, env)
    /\ ~SeasonEmpty(teamId, i, env)

\* the six values of season i of the team
MetricsOfSeason(teamId, i) ==
    SeasonMetrics(DbStats(getTeamStatistics(teamId, getAnalysisSeasons[i].season)[1]))

\* the share of season i in the sum of a metric, and in the sum of the weights
WeightedTerm(teamId, i, count, env, metric) ==
    IF SeasonContributes(teamId, i, count, env)
    THEN Mul(MetricsOfSeason(teamId, i)[metric], getAnalysisSeasons[i].weight)
    ELSE Num(0)

WeightTerm(teamId, i, count, env) ==
    IF SeasonContributes(teamId, i, count, env) THEN getAnalysisSeasons[i].weight
    ELSE Num(0)

\* sum of (season metric x season weight) over sum of weights
WeightedMean(teamId, count, env, metric) ==
    Div(Add(Add(WeightedTerm(teamId, 1, count, env, metric),
                WeightedTerm(teamId, 2, count, env, metric)),
            WeightedTerm(teamId, 3, count, env, metric)),
        Add(Add(WeightTerm(teamId, 1, count, env), WeightTerm(teamId, 2, count, env)),
            WeightTerm(teamId, 3, count, env)))

BoundedMetrics ==
    {"homeAdvantage", "cleanSheetRatio", "scoringConsistency", "defensiveStrength",
     "attackingStrength"}

\* C22: for a team with at least one contributing season, every metric of
\* analyzeTeamStatistics is the sum of (season metric x season weight) over
\* the contributing seasons, divided by the sum of their weights (0.5, 0.3,
\* 0.2), kept within 0..100 for all but goalDifferential; a season without a
\* record or with played = 0 enters neither sum, and a team with a single
\* contributing season gets exactly the metrics of that season.
C22_WeightedOverContributingSeasons ==
    (/\ probe.op = "stats"
     /\ \E i \in DOMAIN getAnalysisSeasons :
            SeasonContributes(probe.a, i, probe.count, probe.env)) =>
        /\ ~probe.raised
        /\ getAnalysisSeasons[1].weight = Rat(5, 10)
        /\ getAnalysisSeasons[2].weight = Rat(3, 10)
        /\ getAnalysisSeasons[3].weight = Rat(2, 10)
        /\ probe.val.goalDifferential =
              WeightedMean(probe.a, probe.count, probe.env, "goalDifferential")
        /\ \A metric \in BoundedMetrics :
              probe.val[metric] =
                 Clamp(WeightedMean(probe.a, probe.count, probe.env, metric))
        /\ \A i \in DOMAIN getAnalysisSeasons :
              (\A j \in DOMAIN getAnalysisSeasons :
                  SeasonContributes(probe.a, j, probe.count, probe.env) <=> j = i)
                 => probe.val = MetricsOfSeason(probe.a, i)

\* two seasons contribute and the third has a record with played = 0: the
\* goal differential lies strictly between those of the two seasons
C22_Witness ==
    /\ probe.op = "stats"
    /\ Len(teamStatistics) = 3
    /\ \E i, j, k \in DOMAIN getAnalysisSeasons :
          /\ i # j /\ j # k /\ i # k
          /\ SeasonContributes(probe.a, i, probe.count, probe.env)
          /\ SeasonContributes(probe.a, j, probe.count, probe.env)
          /\ ~probe.env.db[k] /\ SeasonEmpty(probe.a, k, probe.env)
          /\ Lt(MetricsOfSeason(probe.a, i).goalDifferential, probe.val.goalDifferential)
          /\ Lt(probe.val.goalDifferential, MetricsOfSeason(probe.a, j).goalDifferential)

\* the positions of the completed matches between the two teams
CompletedBetween(team1Id, team2Id) ==
    {i \in DOMAIN fixtures :
        /\ \/ fixtures[i].home = team1Id /\ fixtures[i].away = team2Id
           \/ fixtures[i].home = team2Id /\ fixtures[i].away = team1Id
        /\ fixtures[i].status = "FT"}

\* the position j comes before i, most recent first (the earlier arrival
\* first among matches of one date)
MoreRecent(j, i) ==
    \/ fixtures[j].date > fixtures[i].date
    \/ fixtures[j].date = fixtures[i].date /\ j < i

\* the n most recent of the positions in all
RecentAmong(all, n) ==
    {i \in all : Cardinality({j \in all : MoreRecent(j, i)}) < n}

\* 3 points per win and 1 per draw of teamId over the positions in S
PointsOver(S, teamId) ==
    (3 * Cardinality({i \in S : GoalsOfTeam(i, teamId) > GoalsOfOpponent(i, teamId)}))
    + Cardinality({i \in S : GoalsOfTeam(i, teamId) = GoalsOfOpponent(i, teamId)})

\* C23: for two teams with completed matches between them and a lookup that
\* succeeds, analyzeHeadToHead(t1, t2) considers the at most 10 most recent
\* completed matches between the two (either one at home), credits t1 with 3
\* points per win, 1 per draw and 0 per loss from t1's own role in each
\* match, and returns points / (3 * matchCount) * 100, within [0, 100].
C23_HeadToHeadOverRecentMatches ==
    (/\ probe.op = "h2h" /\ ~probe.failed
     /\ CompletedBetween(probe.a, probe.b) # {}) =>
        /\ ~probe.raised
        /\ Cardinality(RecentAmong(CompletedBetween(probe.a, probe.b), 10)) <= 10
        /\ probe.val =
              Mul(Rat(PointsOver(RecentAmong(CompletedBetween(probe.a, probe.b), 10),
                                 probe.a),
                      3 * Cardinality(RecentAmong(CompletedBetween(probe.a, probe.b), 10))),
                  Num(100))
        /\ InRange(probe.val, 0, 100)

\* more than 10 completed matches between the two, and the matches left out
\* change the score: over all of them it would be another value
C23_Witness ==
    /\ probe.op = "h2h" /\ ~probe.failed /\ probe.a # probe.b
    /\ Cardinality(CompletedBetween(probe.a, probe.b)) > 10
    /\ \E i \in RecentAmong(CompletedBetween(probe.a, probe.b), 10) :
          fixtures[i].away = probe.a /\ GoalsOfTeam(i, probe.a) > GoalsOfOpponent(i, probe.a)
    /\ probe.val #
          Mul(Rat(PointsOver(CompletedBetween(probe.a, probe.b), probe.a),
                  3 * Cardinality(CompletedBetween(probe.a, probe.b))),
              Num(100))

\* C28: for two teams with a shared history, the head-to-head score of one
\* is the complement of the other's: analyzeHeadToHead(a, b) = 100 -
\* analyzeHeadToHead(b, a), histories with draws included, so that the term
\* 100 - headToHeadScore of the away side is the away team's own score.
C28_HeadToHeadComplement ==
    (/\ probe.op = "h2h" /\ ~probe.failed
     /\ CompletedBetween(probe.a, probe.b) # {}) =>
        probe.val = Sub(Num(100), analyzeHeadToHead(probe.b, probe.a, FALSE).val)

\* the API answered the request for season i
ApiAnswered(i, count, env) == ApiSent(i, count, env) /\ env.net[i] = "ok"

\* the database records of the team for the seasons the API answered
RecordsOfAnswered(teamId, count, env) ==
    DbSeasonsFrom(1, teamId,
                  [i \in DOMAIN getAnalysisSeasons |-> ~ApiAnswered(i, count, env)],
                  <<>>)

\* C29: the source of the statistics does not change the result.  When the
\* API answers with the statistics of a season the team has played in,
\* analyzeTeamStatistics returns what it returns for the same seasons read
\* from the database.
C29_SourceIndependent ==
    (/\ probe.op = "stats"
     /\ \E i \in DOMAIN getAnalysisSeasons :
           ApiAnswered(i, probe.count, probe.env) /\ ~SeasonEmpty(probe.a, i, OkEnv)) =>
        probe.val = WeightedStats(RecordsOfAnswered(probe.a, probe.count, probe.env))

----------------------------------------------------------------------------
(* Properties of the client store (SpecClient) *)

\* the API actions that have started and not finished
ActionsInFlight(c) == {a \in ClientActions : c.pc[a] # "idle"}

\* C30: in the client store, loading is true while at least one of the API
\* actions is in flight, and an error stays until it is dismissed: only
\* setError(null) takes an error away.
C30_LoadingAndErrorShared ==
    [][/\ ActionsInFlight(client') # {} => client'.loading
       /\ (client.error # "null" /\ client'.error = "null") =>
             client' = [client EXCEPT !.error = "null"]]_vars

----------------------------------------------------------------------------
(* Properties of the scoring of predictMatch (SpecScoring) *)

\* min(hi, max(lo, x)) for numbers lo <= hi
ClampTo(x, lo, hi) == IF Lt(x, Num(lo)) THEN Num(lo) ELSE IF Lt(Num(hi), x) THEN Num(hi) ELSE x

\* homeForm.formScore - awayForm.formScore of the context that was scored
FormDifferenceOf(v) == Sub(v.context.homeForm.formScore, v.context.awayForm.formScore)

\* C24: the factor scores.  With d = homeForm.formScore - awayForm.formScore,
\* homeFormScore = clamp(50 + d, 0, 100), awayFormScore = clamp(50 - d, 0, 100)
\* and goalDifferenceFactor = clamp(50 + 2 * (home goalDifferential - away
\* goalDifferential), 0, 100); for form scores within [0, 100] the two form
\* factor scores add up to 100.
C24_FactorDerivation ==
    (probe.op = "score") =>
        /\ probe.val.factors.homeFormScore =
              ClampTo(Add(Num(50), FormDifferenceOf(probe.val)), 0, 100)
        /\ probe.val.factors.awayFormScore =
              ClampTo(Sub(Num(50), FormDifferenceOf(probe.val)), 0, 100)
        /\ probe.val.factors.goalDifferenceFactor =
              ClampTo(Add(Num(50),
                          Mul(Num(2), Sub(probe.val.context.homeStats.goalDifferential,
                                          probe.val.context.awayStats.goalDifferential))),
                      0, 100)
        /\ (/\ InRange(probe.val.context.homeForm.formScore, 0, 100)
            /\ InRange(probe.val.context.awayForm.formScore, 0, 100)) =>
              Add(probe.val.factors.homeFormScore, probe.val.factors.awayFormScore)
                 = Num(100)
        /\ ~probe.failed => probe.val.result.factors = probe.val.factors

\* a form difference of 100 and a goal differential far apart: the three
\* factor scores are at the ends of their range
C24_Witness ==
    /\ probe.op = "score" /\ ~probe.failed
    /\ FormDifferenceOf(probe.val) = Num(100)
    /\ probe.val.result.factors.homeFormScore = Num(100)
    /\ probe.val.result.factors.awayFormScore = Num(0)
    /\ probe.val.result.factors.goalDifferenceFactor = Num(0)

\* (attackingStrength + defensiveStrength) / 2 of a side
StrengthAverage(stats) == Div(Add(stats.attackingStrength, stats.defensiveStrength), Num(2))

\* both sides have the same form score and the same strengths, and the
\* head-to-head score is the same seen from either side
Mirrored(v) ==
    /\ v.context.homeForm.formScore = v.context.awayForm.formScore
    /\ v.context.homeStats.attackingStrength = v.context.awayStats.attackingStrength
    /\ v.context.homeStats.defensiveStrength = v.context.awayStats.defensiveStrength
    /\ v.factors.headToHeadScore = Num(50)

\* C25: homeScore = 0.40 * homeFormScore + 0.35 * avg(home attack, home
\* defense) + 0.10 * headToHeadScore + 15 * 0.15, and awayScore = 0.40 *
\* awayFormScore + 0.35 * avg(away attack, away defense) + 0.10 * (100 -
\* headToHeadScore), without a home advantage term; for mirrored inputs
\* homeScore - awayScore = 2.25.
C25_WeightedScores ==
    (probe.op = "score") =>
        /\ probe.val.homeScore =
              Add(Add(Add(Mul(Rat(40, 100), probe.val.factors.homeFormScore),
                          Mul(Rat(35, 100), StrengthAverage(probe.val.context.homeStats))),
                      Mul(Rat(10, 100), probe.val.factors.headToHeadScore)),
                  Mul(Num(15), Rat(15, 100)))
        /\ probe.val.awayScore =
              Add(Add(Mul(Rat(40, 100), probe.val.factors.awayFormScore),
                      Mul(Rat(35, 100), StrengthAverage(probe.val.context.awayStats))),
                  Mul(Rat(10, 100), Sub(Num(100), probe.val.factors.headToHeadScore)))
        /\ Mirrored(probe.val) =>
              Sub(probe.val.homeScore, probe.val.awayScore) = Rat(225, 100)

\* mirrored inputs away from the neutral values
C25_Witness ==
    /\ probe.op = "score" /\ ~probe.failed
    /\ Mirrored(probe.val)
    /\ probe.val.context.homeForm.formScore = Num(40)
    /\ probe.val.context.homeStats.attackingStrength = Num(15)
    /\ Sub(probe.val.homeScore, probe.val.awayScore) = Rat(225, 100)

\* the largest of the three probabilities
MaxProbOf(mlProbs) == MathMax(MathMax(mlProbs.homeWin, mlProbs.draw), mlProbs.awayWin)

\* the probability the tie-break model gives to an outcome
ProbabilityOf(mlProbs, prediction) ==
    IF prediction = "HOME_WIN" THEN mlProbs.homeWin
    ELSE IF prediction = "AWAY_WIN" THEN mlProbs.awayWin ELSE mlProbs.draw

\* homeScore - awayScore of the call
DifferenceOf(v) == Sub(v.homeScore, v.awayScore)

\* C26: the decision rule.  A difference above 10 gives HOME_WIN with
\* confidence round(min(95, 60 + diff / 2)); a difference below -10 gives
\* AWAY_WIN with round(min(95, 60 + |diff| / 2)); every other difference,
\* exactly 10 and -10 included, gives the outcome with the largest of the
\* three probabilities and confidence round(min(75, 45 + 30 * maxProb)).
C26_DecisionRule ==
    (probe.op = "score" /\ ~probe.failed) =>
        IF Lt(Num(10), DifferenceOf(probe.val))
        THEN /\ probe.val.result.prediction = "HOME_WIN"
             /\ probe.val.result.confidence =
                   MathRound(MathMin(Num(95),
                       Add(Num(60), Div(DifferenceOf(probe.val), Num(2)))))
        ELSE IF Lt(DifferenceOf(probe.val), Num(-10))
        THEN /\ probe.val.result.prediction = "AWAY_WIN"
             /\ probe.val.result.confidence =
                   MathRound(MathMin(Num(95),
                       Add(Num(60), Div(Sub(Num(0), DifferenceOf(probe.val)), Num(2)))))
        ELSE /\ ProbabilityOf(probe.val.mlProbs, probe.val.result.prediction)
                   = MaxProbOf(probe.val.mlProbs)
             /\ probe.val.result.confidence =
                   MathRound(MathMin(Num(75),
                       Add(Num(45), Mul(Num(30), MaxProbOf(probe.val.mlProbs)))))

\* a difference of exactly 10 decided by the tie-break, not by the first rule
C26_Witness ==
    /\ probe.op = "score" /\ ~probe.failed
    /\ DifferenceOf(probe.val) = Num(10)
    /\ probe.val.result.confidence # Num(65)

----------------------------------------------------------------------------
(* Properties of the predictions route (SpecStore) *)

\* C10: whatever requests and direct saves have run, and however they were
\* interleaved, the prediction store has at most one prediction per fixture
\* id, and it is the prediction saved last for that fixture.
C10_OnePredictionPerFixture ==
    /\ \A i, j \in DOMAIN predictions :
          i # j => predictions[i].fixture_id # predictions[j].fixture_id
    /\ \A f \in DOMAIN lastSaved :
          IF lastSaved[f].n = 0 THEN getPredictionByFixtureId(f) = <<>>
          ELSE \E i \in DOMAIN predictions :
                  /\ predictions[i].fixture_id = f
                  /\ predictions[i].id = lastSaved[f].id

\* two fixtures have a prediction, and one of them has been saved twice
C10_Witness ==
    /\ Len(predictions) >= 2
    /\ \E f \in DOMAIN lastSaved : lastSaved[f].n >= 2

============================================================================
